---- MODULE Spec2Model ----
(***************************************************************************)
(* A model of clickhouse-mcp: the ClickHouse client (clickhouse/client.go) *)
(* and the MCP tool handlers in front of it (mcp/tools.go).                *)
(*                                                                         *)
(* Go strings are sequences of one-character strings, so that the          *)
(* byte-level functions of the client (TrimSpace, Index, slicing, ToUpper) *)
(* are computed as the code computes them.  The driver connection and its  *)
(* cursors are the environment: every answer they can give (ping fails,    *)
(* submission fails, a row does not scan, iteration ends with an error) is *)
(* an input of the action that models the handler.                         *)
(***************************************************************************)
EXTENDS Integers, Sequences, FiniteSets, TLC

(***************************************************************************)
(* Bounds of the model.                                                    *)
(***************************************************************************)
\* the number of fragments a query text is put together from
MaxFrags == 3
\* the number of columns of a result cursor
MaxCols == 2
\* the number of rows a cursor yields
MaxRows == 2
\* the number of fragments a type string is put together from
MaxTypeFrags == 4
\* the number of fragments a connection URL is put together from
MaxUrlFrags == 3

(***************************************************************************)
(* Strings.  A Go string is its bytes: a sequence of one-character         *)
(* strings, a byte of 128 and more being the Latin-1 character of that     *)
(* number.  Text is UTF-8, decoded as Go's unicode/utf8 decodes it.        *)
(***************************************************************************)
\* the ASCII white space of strings.TrimSpace and unicode.IsSpace:
\* space, \t, \n, \r, \f and \v
WhiteSpace == {" ", "\t", "\n", "\r", "\f", ""}

LowerLetters == <<"a","b","c","d","e","f","g","h","i","j","k","l","m",
                  "n","o","p","q","r","s","t","u","v","w","x","y","z">>
UpperLetters == <<"A","B","C","D","E","F","G","H","I","J","K","L","M",
                  "N","O","P","Q","R","S","T","U","V","W","X","Y","Z">>

Digits == <<"0","1","2","3","4","5","6","7","8","9">>

\* the bytes 128..255 in order
HighBytes == <<"", "", "", "", "", "", "", "", "", "", "", "", "", "", "", "",
              "", "", "", "", "", "", "", "", "", "", "", "", "", "", "", "",
              " ", "¡", "¢", "£", "¤", "¥", "¦", "§", "¨", "©", "ª", "«", "¬", "­", "®", "¯",
              "°", "±", "²", "³", "´", "µ", "¶", "·", "¸", "¹", "º", "»", "¼", "½", "¾", "¿",
              "À", "Á", "Â", "Ã", "Ä", "Å", "Æ", "Ç", "È", "É", "Ê", "Ë", "Ì", "Í", "Î", "Ï",
              "Ð", "Ñ", "Ò", "Ó", "Ô", "Õ", "Ö", "×", "Ø", "Ù", "Ú", "Û", "Ü", "Ý", "Þ", "ß",
              "à", "á", "â", "ã", "ä", "å", "æ", "ç", "è", "é", "ê", "ë", "ì", "í", "î", "ï",
              "ð", "ñ", "ò", "ó", "ô", "õ", "ö", "÷", "ø", "ù", "ú", "û", "ü", "ý", "þ", "ÿ">>

\* the byte of the number b >= 128, and the number of a byte (0 stands for
\* every byte below 128, whose number is not needed)
Byte(b) == HighBytes[b - 127]
ByteAt(hits) == IF hits = {} THEN 0 ELSE 127 + (CHOOSE i \in hits : TRUE)
ByteVal(c) == ByteAt({i \in 1..128 : HighBytes[i] = c})

\* s[i:] and s[:j] and s[i:j] of Go, with Go's 0-based offsets
SliceFrom(s, i) == SubSeq(s, i + 1, Len(s))
SliceTo(s, j) == SubSeq(s, 1, j)
Slice(s, i, j) == SubSeq(s, i + 1, j)

\* strings.HasPrefix
HasPrefix(s, prefix) ==
    /\ Len(s) >= Len(prefix)
    /\ SliceTo(s, Len(prefix)) = prefix

\* strings.Index: the 0-based offset of the first occurrence of sub, or -1
Index(s, sub) ==
    LET hits == {i \in 0..(Len(s) - Len(sub)) : Slice(s, i, i + Len(sub)) = sub}
    IN  IF hits = {} THEN -1
        ELSE CHOOSE i \in hits : \A j \in hits : i <= j

\* strings.Contains
Contains(s, sub) == Index(s, sub) >= 0

\* a decoded rune: its code point r and its width w in bytes
Rune(r, w) == [r |-> r, w |-> w]

\* a continuation byte between lo and hi
Continues(b, lo, hi) == lo <= b /\ b <= hi

\* the first continuation byte that may follow the start byte b0
FirstLow(b0) == CASE b0 = 224 -> 160 [] b0 = 240 -> 144 [] OTHER -> 128
FirstHigh(b0) == CASE b0 = 237 -> 159 [] b0 = 244 -> 143 [] OTHER -> 191

\* the rune that the bytes b0 b1 b2 b3 start with (0 is no byte or an ASCII
\* byte): an invalid or cut-off encoding is utf8.RuneError (U+FFFD) of
\* width 1
DecodeBytes(b0, b1, b2, b3) ==
    CASE 194 <= b0 /\ b0 <= 223 /\ Continues(b1, 128, 191) ->
            Rune(((b0 % 32) * 64) + (b1 % 64), 2)
      [] 224 <= b0 /\ b0 <= 239 /\ Continues(b1, FirstLow(b0), FirstHigh(b0))
             /\ Continues(b2, 128, 191) ->
            Rune(((b0 % 16) * 4096) + ((b1 % 64) * 64) + (b2 % 64), 3)
      [] 240 <= b0 /\ b0 <= 244 /\ Continues(b1, FirstLow(b0), FirstHigh(b0))
             /\ Continues(b2, 128, 191) /\ Continues(b3, 128, 191) ->
            Rune(((b0 % 8) * 262144) + ((b1 % 64) * 4096) + ((b2 % 64) * 64)
                     + (b3 % 64), 4)
      [] OTHER -> Rune(65533, 1)

\* the numbers of the first four bytes of s, 0 where s ends
FirstBytes(s) == [i \in 1..4 |-> IF Len(s) >= i THEN ByteVal(s[i]) ELSE 0]

DecodeFour(b) == DecodeBytes(b[1], b[2], b[3], b[4])

\* utf8.DecodeRuneInString of a string that starts with a byte >= 128
DecodeRune(s) == DecodeFour(FirstBytes(s))

\* utf8.RuneStart
RuneStart(c) == ~Continues(ByteVal(c), 128, 191)

\* the offset the last rune of s is looked for at: the nearest start byte
\* among the last four bytes
LastStart(starts, lim) ==
    IF starts # {} THEN CHOOSE i \in starts : \A j \in starts : j <= i
    ELSE IF lim - 1 < 0 THEN 0 ELSE lim - 1

\* the rune d decoded at start is the last of a string of end bytes if it
\* reaches the end
LastRune(d, start, end) == IF start + d.w # end THEN Rune(65533, 1) ELSE d

DecodeLastFrom(s, start) == LastRune(DecodeRune(Slice(s, start, Len(s))), start, Len(s))

DecodeLastIn(s, lim) ==
    DecodeLastFrom(s, LastStart({i \in lim..(Len(s) - 2) : RuneStart(s[i + 1])}, lim))

\* utf8.DecodeLastRuneInString of a string that ends with a byte >= 128
DecodeLastRune(s) == DecodeLastIn(s, IF Len(s) - 4 < 0 THEN 0 ELSE Len(s) - 4)

\* the bytes of the given numbers
Bytes(ns) == [i \in 1..Len(ns) |-> Byte(ns[i])]

\* utf8.EncodeRune of a rune of 128 and more
EncodeRune(r) ==
    Bytes(IF r < 2048 THEN <<192 + (r \div 64), 128 + (r % 64)>>
          ELSE IF r < 65536
          THEN <<224 + (r \div 4096), 128 + ((r \div 64) % 64), 128 + (r % 64)>>
          ELSE <<240 + (r \div 262144), 128 + ((r \div 4096) % 64),
                 128 + ((r \div 64) % 64), 128 + (r % 64)>>)

\* the white space of unicode.IsSpace above ASCII: U+0085, U+00A0, U+1680,
\* U+2000..U+200A, U+2028, U+2029, U+202F, U+205F, U+3000
SpaceRunes ==
    {133, 160, 5760, 8232, 8233, 8239, 8287, 12288} \cup (8192..8202)

\* unicode.ToUpper above ASCII (unicode.CaseRanges): the runes lo, lo + stride,
\* ... up to hi map to themselves plus delta; each entry is
\* <<lo, hi, stride, delta>>
UpperRanges ==
    {  <<181, 181, 1, 743>>, <<224, 246, 1, -32>>, <<248, 254, 1, -32>>,
       <<255, 255, 1, 121>>, <<257, 303, 2, -1>>, <<305, 305, 1, -232>>,
       <<307, 311, 2, -1>>, <<314, 328, 2, -1>>, <<331, 375, 2, -1>>,
       <<378, 382, 2, -1>>, <<383, 383, 1, -300>>, <<384, 384, 1, 195>>,
       <<387, 389, 2, -1>>, <<392, 392, 1, -1>>, <<396, 396, 1, -1>>,
       <<402, 402, 1, -1>>, <<405, 405, 1, 97>>, <<409, 409, 1, -1>>,
       <<410, 410, 1, 163>>, <<414, 414, 1, 130>>, <<417, 421, 2, -1>>,
       <<424, 424, 1, -1>>, <<429, 429, 1, -1>>, <<432, 432, 1, -1>>,
       <<436, 438, 2, -1>>, <<441, 441, 1, -1>>, <<445, 445, 1, -1>>,
       <<447, 447, 1, 56>>, <<453, 453, 1, -1>>, <<454, 454, 1, -2>>,
       <<456, 456, 1, -1>>, <<457, 457, 1, -2>>, <<459, 459, 1, -1>>,
       <<460, 460, 1, -2>>, <<462, 476, 2, -1>>, <<477, 477, 1, -79>>,
       <<479, 495, 2, -1>>, <<498, 498, 1, -1>>, <<499, 499, 1, -2>>,
       <<501, 501, 1, -1>>, <<505, 543, 2, -1>>, <<547, 563, 2, -1>>,
       <<572, 572, 1, -1>>, <<575, 576, 1, 10815>>, <<578, 578, 1, -1>>,
       <<583, 591, 2, -1>>, <<592, 592, 1, 10783>>, <<593, 593, 1, 10780>>,
       <<594, 594, 1, 10782>>, <<595, 595, 1, -210>>, <<596, 596, 1, -206>>,
       <<598, 599, 1, -205>>, <<601, 601, 1, -202>>, <<603, 603, 1, -203>>,
       <<604, 604, 1, 42319>>, <<608, 608, 1, -205>>, <<609, 609, 1, 42315>>,
       <<611, 611, 1, -207>>, <<613, 613, 1, 42280>>, <<614, 614, 1, 42308>>,
       <<616, 616, 1, -209>>, <<617, 617, 1, -211>>, <<618, 618, 1, 42308>>,
       <<619, 619, 1, 10743>>, <<620, 620, 1, 42305>>, <<623, 623, 1, -211>>,
       <<625, 625, 1, 10749>>, <<626, 626, 1, -213>>, <<629, 629, 1, -214>>,
       <<637, 637, 1, 10727>>, <<640, 640, 1, -218>>, <<642, 642, 1, 42307>>,
       <<643, 643, 1, -218>>, <<647, 647, 1, 42282>>, <<648, 648, 1, -218>>,
       <<649, 649, 1, -69>>, <<650, 651, 1, -217>>, <<652, 652, 1, -71>>,
       <<658, 658, 1, -219>>, <<669, 669, 1, 42261>>, <<670, 670, 1, 42258>>,
       <<837, 837, 1, 84>>, <<881, 883, 2, -1>>, <<887, 887, 1, -1>>,
       <<891, 893, 1, 130>>, <<940, 940, 1, -38>>, <<941, 943, 1, -37>>,
       <<945, 961, 1, -32>>, <<962, 962, 1, -31>>, <<963, 971, 1, -32>>,
       <<972, 972, 1, -64>>, <<973, 974, 1, -63>>, <<976, 976, 1, -62>>,
       <<977, 977, 1, -57>>, <<981, 981, 1, -47>>, <<982, 982, 1, -54>>,
       <<983, 983, 1, -8>>, <<985, 1007, 2, -1>>, <<1008, 1008, 1, -86>>,
       <<1009, 1009, 1, -80>>, <<1010, 1010, 1, 7>>, <<1011, 1011, 1, -116>>,
       <<1013, 1013, 1, -96>>, <<1016, 1016, 1, -1>>, <<1019, 1019, 1, -1>>,
       <<1072, 1103, 1, -32>>, <<1104, 1119, 1, -80>>, <<1121, 1153, 2, -1>>,
       <<1163, 1215, 2, -1>>, <<1218, 1230, 2, -1>>, <<1231, 1231, 1, -15>>,
       <<1233, 1327, 2, -1>>, <<1377, 1414, 1, -48>>, <<4304, 4346, 1, 3008>>,
       <<4349, 4351, 1, 3008>>, <<5112, 5117, 1, -8>>, <<7296, 7296, 1, -6254>>,
       <<7297, 7297, 1, -6253>>, <<7298, 7298, 1, -6244>>, <<7299, 7300, 1, -6242>>,
       <<7301, 7301, 1, -6243>>, <<7302, 7302, 1, -6236>>, <<7303, 7303, 1, -6181>>,
       <<7304, 7304, 1, 35266>>, <<7545, 7545, 1, 35332>>, <<7549, 7549, 1, 3814>>,
       <<7566, 7566, 1, 35384>>, <<7681, 7829, 2, -1>>, <<7835, 7835, 1, -59>>,
       <<7841, 7935, 2, -1>>, <<7936, 7943, 1, 8>>, <<7952, 7957, 1, 8>>,
       <<7968, 7975, 1, 8>>, <<7984, 7991, 1, 8>>, <<8000, 8005, 1, 8>>,
       <<8017, 8023, 2, 8>>, <<8032, 8039, 1, 8>>, <<8048, 8049, 1, 74>>,
       <<8050, 8053, 1, 86>>, <<8054, 8055, 1, 100>>, <<8056, 8057, 1, 128>>,
       <<8058, 8059, 1, 112>>, <<8060, 8061, 1, 126>>, <<8064, 8071, 1, 8>>,
       <<8080, 8087, 1, 8>>, <<8096, 8103, 1, 8>>, <<8112, 8113, 1, 8>>,
       <<8115, 8115, 1, 9>>, <<8126, 8126, 1, -7205>>, <<8131, 8131, 1, 9>>,
       <<8144, 8145, 1, 8>>, <<8160, 8161, 1, 8>>, <<8165, 8165, 1, 7>>,
       <<8179, 8179, 1, 9>>, <<8526, 8526, 1, -28>>, <<8560, 8575, 1, -16>>,
       <<8580, 8580, 1, -1>>, <<9424, 9449, 1, -26>>, <<11312, 11359, 1, -48>>,
       <<11361, 11361, 1, -1>>, <<11365, 11365, 1, -10795>>, <<11366, 11366, 1, -10792>>,
       <<11368, 11372, 2, -1>>, <<11379, 11379, 1, -1>>, <<11382, 11382, 1, -1>>,
       <<11393, 11491, 2, -1>>, <<11500, 11502, 2, -1>>, <<11507, 11507, 1, -1>>,
       <<11520, 11557, 1, -7264>>, <<11559, 11559, 1, -7264>>, <<11565, 11565, 1, -7264>>,
       <<42561, 42605, 2, -1>>, <<42625, 42651, 2, -1>>, <<42787, 42799, 2, -1>>,
       <<42803, 42863, 2, -1>>, <<42874, 42876, 2, -1>>, <<42879, 42887, 2, -1>>,
       <<42892, 42892, 1, -1>>, <<42897, 42899, 2, -1>>, <<42900, 42900, 1, 48>>,
       <<42903, 42921, 2, -1>>, <<42933, 42947, 2, -1>>, <<42952, 42954, 2, -1>>,
       <<42961, 42961, 1, -1>>, <<42967, 42969, 2, -1>>, <<42998, 42998, 1, -1>>,
       <<43859, 43859, 1, -928>>, <<43888, 43967, 1, -38864>>, <<65345, 65370, 1, -32>>,
       <<66600, 66639, 1, -40>>, <<66776, 66811, 1, -40>>, <<66967, 67003, 2, -39>>,
       <<66968, 66977, 1, -39>>, <<66979, 66993, 1, -39>>, <<66995, 67001, 1, -39>>,
       <<67003, 67004, 1, -39>>, <<68800, 68850, 1, -64>>, <<71872, 71903, 1, -32>>,
       <<93792, 93823, 1, -32>>, <<125218, 125251, 1, -34>> }

InRange(rg, r) == rg[1] <= r /\ r <= rg[2] /\ (r - rg[1]) % rg[3] = 0

Shifted(r, hits) == IF hits = {} THEN r ELSE r + (CHOOSE rg \in hits : TRUE)[4]

\* unicode.ToUpper
ToUpperRune(r) ==
    Shifted(r, {rg \in UpperRanges : InRange(rg, r)})

\* strings.ToUpper of an ASCII byte
ToUpperChar(c) ==
    IF \E i \in 1..Len(LowerLetters) : LowerLetters[i] = c
    THEN UpperLetters[CHOOSE i \in 1..Len(LowerLetters) : LowerLetters[i] = c]
    ELSE c

\* the bytes of the rune up: two runes (U+0131, U+017F) have an upper case
\* in ASCII
UpperBytes(up) == IF up < 128 THEN <<UpperLetters[up - 64]>> ELSE EncodeRune(up)

\* the upper-case form of the rune a text with bytes >= 128 starts with:
\* strings.Map writes an invalid byte as U+FFFD
ToUpperFirst(s) == UpperBytes(ToUpperRune(DecodeRune(s).r))

\* strings.Map(unicode.ToUpper, s)
RECURSIVE MapToUpper(_)
MapToUpper(s) ==
    IF s = <<>> THEN <<>>
    ELSE IF ByteVal(s[1]) = 0 THEN <<ToUpperChar(s[1])>> \o MapToUpper(Tail(s))
    ELSE ToUpperFirst(s) \o MapToUpper(SliceFrom(s, DecodeRune(s).w))

\* strings.ToUpper: byte by byte for ASCII text, rune by rune otherwise
ToUpper(s) ==
    IF \A i \in 1..Len(s) : ByteVal(s[i]) = 0
    THEN [i \in 1..Len(s) |-> ToUpperChar(s[i])]
    ELSE MapToUpper(s)

\* the width of the rune d if it is white space, or 0
SpaceWidth(d) == IF d.r \in SpaceRunes THEN d.w ELSE 0

\* the width of the white space rune s starts with, or 0
SpaceWidthLeft(s) ==
    IF s = <<>> THEN 0
    ELSE IF ByteVal(s[1]) = 0 THEN (IF s[1] \in WhiteSpace THEN 1 ELSE 0)
    ELSE SpaceWidth(DecodeRune(s))

\* the width of the white space rune s ends with, or 0
SpaceWidthRight(s) ==
    IF s = <<>> THEN 0
    ELSE IF ByteVal(s[Len(s)]) = 0 THEN (IF s[Len(s)] \in WhiteSpace THEN 1 ELSE 0)
    ELSE SpaceWidth(DecodeLastRune(s))

\* strings.TrimSpace
RECURSIVE TrimLeft(_)
DropLeft(s, w) == IF w > 0 THEN TrimLeft(SliceFrom(s, w)) ELSE s
TrimLeft(s) == DropLeft(s, SpaceWidthLeft(s))

RECURSIVE TrimRight(_)
DropRight(s, w) == IF w > 0 THEN TrimRight(SliceTo(s, Len(s) - w)) ELSE s
TrimRight(s) == DropRight(s, SpaceWidthRight(s))

TrimSpace(s) == TrimRight(TrimLeft(s))

\* strings.Split(s, "\n"): the lines of s, at least one
RECURSIVE Split(_, _)
Split(s, sep) ==
    LET i == Index(s, sep)
    IN  IF i = -1 THEN <<s>>
        ELSE <<SliceTo(s, i)>> \o Split(SliceFrom(s, i + Len(sep)), sep)

\* strings.Join
RECURSIVE Join(_, _)
Join(parts, sep) ==
    IF parts = <<>> THEN <<>>
    ELSE IF Len(parts) = 1 THEN parts[1]
    ELSE parts[1] \o sep \o Join(Tail(parts), sep)

\* the %d verb of fmt.Sprintf
RECURSIVE NatToStr(_)
NatToStr(n) ==
    IF n < 10 THEN <<Digits[n + 1]>>
    ELSE NatToStr(n \div 10) \o <<Digits[(n % 10) + 1]>>

Itoa(n) == IF n < 0 THEN <<"-">> \o NatToStr(-n) ELSE NatToStr(n)

(***************************************************************************)
(* The query normalizer (clickhouse/client.go).                            *)
(***************************************************************************)
\* normalizeQuery without the second TrimSpace
normalizeQueryTrimOnce(query) ==
    LET q1 == TrimSpace(query)
    IN  IF Len(q1) > 0 /\ q1[Len(q1)] = ";"
        THEN SliceTo(q1, Len(q1) - 1)
        ELSE q1

normalizeQuery(query) ==
    LET q1 == TrimSpace(query)
        q2 == IF Len(q1) > 0 /\ q1[Len(q1)] = ";"
              THEN SliceTo(q1, Len(q1) - 1)
              ELSE q1
    IN  TrimSpace(q2)

\* one pass of the first loop of removeComments (366-380): stop is whether
\* the pass breaks out of the loop, result the text after it
blockCommentPass(result) ==
    LET startIdx == Index(result, <<"/","*">>)
    IN  IF startIdx = -1 THEN [stop |-> TRUE, result |-> result]
        ELSE LET endIdx == Index(SliceFrom(result, startIdx), <<"*","/">>)
             IN  IF endIdx = -1
                 THEN [stop |-> TRUE, result |-> SliceTo(result, startIdx)]
                 ELSE [stop |-> FALSE,
                       result |-> SliceTo(result, startIdx) \o <<" ">>
                                    \o SliceFrom(result, startIdx + endIdx + 2)]

RECURSIVE removeBlockComments(_)
removeBlockComments(result) ==
    LET pass == blockCommentPass(result)
    IN  IF pass.stop THEN pass.result ELSE removeBlockComments(pass.result)

\* the second loop of removeComments, on one line
cutLineComment(line) ==
    LET commentIdx == Index(line, <<"-","-">>)
    IN  IF commentIdx # -1 THEN SliceTo(line, commentIdx) ELSE line

\* removeComments without its second loop
removeCommentsBlocksOnly(query) == removeBlockComments(query)

removeComments(query) ==
    LET lines == Split(removeBlockComments(query), <<"\n">>)
    IN  Join([i \in 1..Len(lines) |-> cutLineComment(lines[i])], <<"\n">>)

\* containsLimitClause on the text with its comments
containsLimitClauseWithComments(query) ==
    Contains(ToUpper(query), <<" ","L","I","M","I","T"," ">>)

\* containsLimitClause looking for the word without the spaces around it
containsLimitClauseWord(query) ==
    Contains(ToUpper(removeComments(query)), <<"L","I","M","I","T">>)

containsLimitClause(query) ==
    Contains(ToUpper(removeComments(query)), <<" ","L","I","M","I","T"," ">>)

endsWithSemicolon(query) ==
    LET trimmed == TrimSpace(query)
    IN  Len(trimmed) > 0 /\ trimmed[Len(trimmed)] = ";"

\* limitedQuery with the cap appended to the text as given, not normalized
limitedQueryRaw(query, limit) ==
    IF limit > 0 /\ ~containsLimitClause(normalizeQuery(query))
    THEN query \o <<" ","L","I","M","I","T"," ">> \o Itoa(limit)
    ELSE normalizeQuery(query)

\* the text QueryData submits for a query and a row cap
limitedQuery(query, limit) ==
    LET cleanQuery == normalizeQuery(query)
    IN  IF limit > 0 /\ ~containsLimitClause(cleanQuery)
        THEN cleanQuery \o <<" ","L","I","M","I","T"," ">> \o Itoa(limit)
        ELSE cleanQuery

(***************************************************************************)
(* The type classifier (clickhouse/client.go).                             *)
(***************************************************************************)
IsArrayType(typeName) ==
    Len(typeName) >= 6 /\ SliceTo(typeName, 5) = <<"A","r","r","a","y">>

\* the isNested expression of GetTableSchema and QueryData
IsNestedType(typ) ==
    Len(typ) >= 7 /\ SliceTo(typ, 6) = <<"N","e","s","t","e","d">>

\* what a call of a function does: it returns a bool (truth) or a string
\* (text), or it panics
ReturnsBool(truth) == [panicked |-> FALSE, truth |-> truth, text |-> <<>>]
ReturnsText(text) == [panicked |-> FALSE, truth |-> FALSE, text |-> text]
Panics == [panicked |-> TRUE, truth |-> FALSE, text |-> <<>>]

\* s[low:high] is within the bounds of s; Go panics when it is not
SliceInRange(s, low, high) == 0 <= low /\ low <= high /\ high <= Len(s)

GetBaseType(typeName) ==
    IF IsArrayType(typeName)
    THEN IF SliceInRange(typeName, 6, Len(typeName) - 1)
         THEN ReturnsText(Slice(typeName, 6, Len(typeName) - 1))
         ELSE Panics
    ELSE ReturnsText(typeName)

(***************************************************************************)
(* Declared type strings.                                                  *)
(***************************************************************************)
tString == <<"S","t","r","i","n","g">>
tUInt8 == <<"U","I","n","t","8">>
tUInt16 == <<"U","I","n","t","1","6">>
tUInt32 == <<"U","I","n","t","3","2">>
tUInt64 == <<"U","I","n","t","6","4">>
tInt8 == <<"I","n","t","8">>
tInt16 == <<"I","n","t","1","6">>
tInt32 == <<"I","n","t","3","2">>
tInt64 == <<"I","n","t","6","4">>
tFloat32 == <<"F","l","o","a","t","3","2">>
tFloat64 == <<"F","l","o","a","t","6","4">>
tBool == <<"B","o","o","l">>
tDate == <<"D","a","t","e">>
tDateTime == <<"D","a","t","e","T","i","m","e">>
tArrayString == <<"A","r","r","a","y","(","S","t","r","i","n","g",")">>
tNested == <<"N","e","s","t","e","d","(","a"," ","S","t","r","i","n","g",")">>
tNullableString == <<"N","u","l","l","a","b","l","e","(","S","t","r","i","n","g",")">>
tDateTime64 == <<"D","a","t","e","T","i","m","e","6","4","(","3",")">>
tLowerString == <<"s","t","r","i","n","g">>
tArrays == <<"A","r","r","a","y","s">>
tArrayArrayInt32 ==
    <<"A","r","r","a","y","(","A","r","r","a","y","(","I","n","t","3","2",")",")">>

\* the type strings the two switches of QueryData name
ScalarTypes ==
    {tString, tUInt8, tUInt16, tUInt32, tUInt64, tInt8, tInt16, tInt32, tInt64,
     tFloat32, tFloat64, tBool, tDate, tDateTime}

\* type strings no case of the switches names
OtherTypes ==
    {tArrayString, tNested, tNullableString, tDateTime64, tLowerString, tArrays}

TypeNames == ScalarTypes \cup OtherTypes

(***************************************************************************)
(* Values.  A Go value is a record: k is its dynamic type, n its number    *)
(* (or 0/1 for a bool), s its text (of a string or a []byte; "NaN" marks a *)
(* float that is not a number), t its time (year, month, day, hour,        *)
(* minute, second, UTC) and items the elements of a slice.                 *)
(***************************************************************************)
ZeroTime == <<1, 1, 1, 0, 0, 0>>

Item(k, n, s) == [k |-> k, n |-> n, s |-> s]

Val(k, n, s, t, items) == [k |-> k, n |-> n, s |-> s, t |-> t, items |-> items]

StringVal(s) == Val("string", 0, s, ZeroTime, <<>>)
NilVal == Val("nil", 0, <<>>, ZeroTime, <<>>)

sNaN == <<"N","a","N">>

\* n in decimal, at least w digits
RECURSIVE Pad(_, _)
Pad(n, w) ==
    LET d == NatToStr(n)
    IN  IF Len(d) >= w THEN d ELSE <<"0">> \o Pad(n, w - 1)

\* d without its final zeros
RECURSIVE StripZeros(_)
StripZeros(d) ==
    IF Len(d) > 1 /\ d[Len(d)] = "0" THEN StripZeros(SliceTo(d, Len(d) - 1)) ELSE d

\* the %v verb for a float64 that is the whole number n (strconv 'g', shortest):
\* the digits of n below 10^6 in magnitude, and otherwise the form d.ddde+XX
FormatFloat(n) ==
    LET mag == IF n < 0 THEN 0 - n ELSE n
        d == NatToStr(mag)
        m == StripZeros(d)
        sign == IF n < 0 THEN <<"-">> ELSE <<>>
    IN  IF Len(d) <= 6 THEN sign \o d
        ELSE sign \o <<m[1]>> \o (IF Len(m) > 1 THEN <<".">> \o Tail(m) ELSE <<>>)
                 \o <<"e", "+">> \o Pad(Len(d) - 1, 2)

\* fmt.Sprint of an element of a []any that is not a []byte
Sprint(item) ==
    CASE item.k = "string" -> item.s
      [] item.k \in {"uint64", "int64"} -> Itoa(item.n)
      [] item.k = "float64" -> IF item.s = sNaN THEN sNaN ELSE FormatFloat(item.n)
      [] item.k = "bool" -> IF item.n = 1 THEN <<"t","r","u","e">>
                            ELSE <<"f","a","l","s","e">>
      [] OTHER -> <<"<","n","i","l",">">>

\* time.Time.Format(time.RFC3339) of a UTC time
FormatRFC3339(t) ==
    Pad(t[1], 4) \o <<"-">> \o Pad(t[2], 2) \o <<"-">> \o Pad(t[3], 2) \o <<"T">>
        \o Pad(t[4], 2) \o <<":">> \o Pad(t[5], 2) \o <<":">> \o Pad(t[6], 2)
        \o <<"Z">>

(***************************************************************************)
(* The driver, as the client sees it.  A cursor (driver.Rows) has columns  *)
(* [name, type], rows [scanOk, cells] and iterErr: whether iteration ended *)
(* with an error, which rows.Err() then reports.  An environment env is    *)
(* [pingOk, queryOk, cursor]: the answers of conn.Ping and conn.Query.     *)
(* The result of an operation is [err, names, Columns, Rows] together with *)
(* log, the calls made on the connection and the cursor in order, and      *)
(* sent, the statements submitted.                                         *)
(***************************************************************************)
sSystem == <<"s","y","s","t","e","m">>
sInformationSchema ==
    <<"i","n","f","o","r","m","a","t","i","o","n","_","s","c","h","e","m","a">>

Out(err, names, columns, rows, log, sent) ==
    [err |-> err, names |-> names, Columns |-> columns, Rows |-> rows,
     log |-> log, sent |-> sent]

\* a cursor closed only when the operation succeeds
DeferredOnSuccess(r, sent) ==
    Out(r.err, r.names, r.Columns, r.Rows,
        IF r.err = "nil" THEN r.log \o <<"Close">> ELSE r.log, sent)

\* the deferred rows.Close() of an operation whose statement was submitted
Deferred(r, sent) ==
    Out(r.err, r.names, r.Columns, r.Rows, r.log \o <<"Close">>, sent)

\* GetDatabasesLoop skipping "system" only
RECURSIVE GetDatabasesLoopSystemOnly(_, _, _, _)
GetDatabasesLoopSystemOnly(rows, i, databases, log) ==
    IF i > Len(rows)
    THEN Out("nil", databases, <<>>, <<>>, log \o <<"Next">>, <<>>)
    ELSE IF ~rows[i].scanOk
    THEN Out("DatabaseScanFailed", <<>>, <<>>, <<>>, log \o <<"Next", "Scan">>, <<>>)
    ELSE LET name == rows[i].cells[1].s
         IN  GetDatabasesLoopSystemOnly(rows, i + 1,
                 IF name # sSystem THEN Append(databases, name) ELSE databases,
                 log \o <<"Next", "Scan">>)

\* the loop of GetDatabases (client.go 117-129)
RECURSIVE GetDatabasesLoop(_, _, _, _)
GetDatabasesLoop(rows, i, databases, log) ==
    IF i > Len(rows)
    THEN Out("nil", databases, <<>>, <<>>, log \o <<"Next">>, <<>>)
    ELSE IF ~rows[i].scanOk
    THEN Out("DatabaseScanFailed", <<>>, <<>>, <<>>, log \o <<"Next", "Scan">>, <<>>)
    ELSE LET name == rows[i].cells[1].s
         IN  GetDatabasesLoop(rows, i + 1,
                 IF name # sSystem /\ name # sInformationSchema
                 THEN Append(databases, name)
                 ELSE databases,
                 log \o <<"Next", "Scan">>)

GetDatabases(env) ==
    LET text == <<"S","H","O","W"," ","D","A","T","A","B","A","S","E","S">>
    IN  IF ~env.queryOk
        THEN Out("DatabaseListFailed", <<>>, <<>>, <<>>, <<"Query">>, <<text>>)
        ELSE Deferred(GetDatabasesLoop(env.cursor.rows, 1, <<>>, <<"Query">>),
                      <<text>>)

\* the loop of GetTables (client.go 140-149)
RECURSIVE GetTablesLoop(_, _, _, _)
GetTablesLoop(rows, i, tables, log) ==
    IF i > Len(rows)
    THEN Out("nil", tables, <<>>, <<>>, log \o <<"Next">>, <<>>)
    ELSE IF ~rows[i].scanOk
    THEN Out("TableScanFailed", <<>>, <<>>, <<>>, log \o <<"Next", "Scan">>, <<>>)
    ELSE GetTablesLoop(rows, i + 1, Append(tables, rows[i].cells[1].s),
                       log \o <<"Next", "Scan">>)

GetTables(database, env) ==
    LET text == <<"S","H","O","W"," ","T","A","B","L","E","S"," ","F","R","O","M"," ">>
                    \o database
    IN  IF ~env.queryOk
        THEN Out("TableListFailed", <<>>, <<>>, <<>>, <<"Query">>, <<text>>)
        ELSE Deferred(GetTablesLoop(env.cursor.rows, 1, <<>>, <<"Query">>),
                      <<text>>)

ColumnInfo(name, typ, position) ==
    [Name |-> name, Type |-> typ, Position |-> position,
     IsArray |-> IsArrayType(typ), IsNested |-> IsNestedType(typ)]

\* the loop of GetTableSchema and its rows.Err() check (client.go 161-187)
RECURSIVE GetTableSchemaLoop(_, _, _, _)
GetTableSchemaLoop(cursor, position, columns, log) ==
    IF position >= Len(cursor.rows)
    THEN IF cursor.iterErr
         THEN Out("SchemaIterationError", <<>>, <<>>, <<>>,
                  log \o <<"Next", "Err">>, <<>>)
         ELSE Out("nil", <<>>, columns, <<>>, log \o <<"Next", "Err">>, <<>>)
    ELSE LET row == cursor.rows[position + 1]
         IN  IF ~row.scanOk
             THEN Out("ColumnScanFailed", <<>>, <<>>, <<>>,
                      log \o <<"Next", "Scan">>, <<>>)
             ELSE GetTableSchemaLoop(cursor, position + 1,
                      Append(columns,
                             ColumnInfo(row.cells[1].s, row.cells[2].s, position + 1)),
                      log \o <<"Next", "Scan">>)

GetTableSchema(database, table, env) ==
    LET query == <<"D","E","S","C","R","I","B","E"," ","T","A","B","L","E"," ">>
                     \o database \o <<".">> \o table
    IN  IF ~env.queryOk
        THEN Out("SchemaFailed", <<>>, <<>>, <<>>, <<"Query">>, <<query>>)
        ELSE Deferred(GetTableSchemaLoop(env.cursor, 0, <<>>, <<"Query">>),
                      <<query>>)

(***************************************************************************)
(* QueryData (client.go 191-332).                                          *)
(***************************************************************************)
\* the ColumnInfo list built from the cursor's column types (214-231)
queryColumns(cursor) ==
    [i \in 1..Len(cursor.cols) |->
        ColumnInfo(cursor.cols[i].name, cursor.cols[i].type, i)]

\* the first switch (246-263): the Go type of the variable a column is
\* scanned into; "any" is anyVars
destKind(typ) ==
    CASE typ = tString -> "string"
      [] typ \in {tUInt8, tUInt16, tUInt32, tUInt64} -> "uint64"
      [] typ \in {tInt8, tInt16, tInt32, tInt64} -> "int64"
      [] typ \in {tFloat32, tFloat64} -> "float64"
      [] typ = tBool -> "bool"
      [] typ \in {tDate, tDateTime} -> "time"
      [] OTHER -> "any"

destPointers(columns) == [i \in 1..Len(columns) |-> destKind(columns[i].Type)]

\* the zero value of a scan variable
zeroVar(kind) ==
    IF kind = "any" THEN NilVal ELSE Val(kind, 0, <<>>, ZeroTime, <<>>)

\* stringVars[i], uintVars[i], ... anyVars[i] after a successful
\* rows.Scan(destPointers...): the variable column i is bound to holds the
\* cell (a typed variable as a value of its own Go type, anyVars whatever the
\* driver delivers), the variables it is not bound to keep their zero value
scanVar(kind, dests, cells, i) ==
    IF dests[i] # kind THEN zeroVar(kind)
    ELSE IF kind = "any" THEN cells[i]
    ELSE [cells[i] EXCEPT !.k = kind]

\* the conversion of a []any whose first element is a []byte (299-307)
strArray(val) ==
    [j \in 1..Len(val) |->
        IF val[j].k = "bytes" THEN Item("string", 0, val[j].s)
        ELSE Item("string", 0, Sprint(val[j]))]

\* passthrough converting a sequence whatever the column is classified as
passthroughAnyColumn(col, v) ==
    CASE v.k = "bytes" -> StringVal(v.s)
      [] v.k = "anyseq" ->
            IF Len(v.items) > 0
            THEN IF v.items[1].k = "bytes"
                 THEN Val("strseq", 0, <<>>, ZeroTime, strArray(v.items))
                 ELSE v
            ELSE v
      [] OTHER -> v

\* the default case of the second switch (290-316)
passthrough(col, v) ==
    CASE v.k = "bytes" -> StringVal(v.s)
      [] v.k = "anyseq" ->
            IF col.IsArray /\ Len(v.items) > 0
            THEN IF v.items[1].k = "bytes"
                 THEN Val("strseq", 0, <<>>, ZeroTime, strArray(v.items))
                 ELSE v
            ELSE v
      [] OTHER -> v

\* rowValue with the time case taken by every type that starts with DateTime
rowValueByPrefix(col, dests, cells, i) ==
    CASE col.Type = tString -> scanVar("string", dests, cells, i)
      [] col.Type \in {tUInt8, tUInt16, tUInt32, tUInt64} ->
            scanVar("uint64", dests, cells, i)
      [] col.Type \in {tInt8, tInt16, tInt32, tInt64} ->
            scanVar("int64", dests, cells, i)
      [] col.Type \in {tFloat32, tFloat64} -> scanVar("float64", dests, cells, i)
      [] col.Type = tBool -> scanVar("bool", dests, cells, i)
      [] col.Type = tDate \/ HasPrefix(col.Type, tDateTime) ->
            StringVal(FormatRFC3339(scanVar("time", dests, cells, i).t))
      [] OTHER -> passthrough(col, scanVar("any", dests, cells, i))

\* rowValue storing a float that is not a number as the text NaN
rowValueNaNAsText(col, dests, cells, i) ==
    CASE col.Type = tString -> scanVar("string", dests, cells, i)
      [] col.Type \in {tUInt8, tUInt16, tUInt32, tUInt64} ->
            scanVar("uint64", dests, cells, i)
      [] col.Type \in {tInt8, tInt16, tInt32, tInt64} ->
            scanVar("int64", dests, cells, i)
      [] col.Type \in {tFloat32, tFloat64} ->
            IF scanVar("float64", dests, cells, i).s = sNaN
            THEN StringVal(sNaN)
            ELSE scanVar("float64", dests, cells, i)
      [] col.Type = tBool -> scanVar("bool", dests, cells, i)
      [] col.Type \in {tDate, tDateTime} ->
            StringVal(FormatRFC3339(scanVar("time", dests, cells, i).t))
      [] OTHER -> passthrough(col, scanVar("any", dests, cells, i))

\* the second switch (276-317): the value stored under col.Name
rowValue(col, dests, cells, i) ==
    CASE col.Type = tString -> scanVar("string", dests, cells, i)
      [] col.Type \in {tUInt8, tUInt16, tUInt32, tUInt64} ->
            scanVar("uint64", dests, cells, i)
      [] col.Type \in {tInt8, tInt16, tInt32, tInt64} ->
            scanVar("int64", dests, cells, i)
      [] col.Type \in {tFloat32, tFloat64} -> scanVar("float64", dests, cells, i)
      [] col.Type = tBool -> scanVar("bool", dests, cells, i)
      [] col.Type \in {tDate, tDateTime} ->
            StringVal(FormatRFC3339(scanVar("time", dests, cells, i).t))
      [] OTHER -> passthrough(col, scanVar("any", dests, cells, i))

\* the inner loop keeping the first column of a name
RECURSIVE fillRowFirstWins(_, _, _, _, _)
fillRowFirstWins(columns, dests, cells, i, row) ==
    IF i > Len(columns) THEN row
    ELSE fillRowFirstWins(columns, dests, cells, i + 1,
             row @@ (columns[i].Name :> rowValue(columns[i], dests, cells, i)))

\* the inner loop (272-318): a later column of the same name overwrites
RECURSIVE fillRow(_, _, _, _, _)
fillRow(columns, dests, cells, i, row) ==
    IF i > Len(columns) THEN row
    ELSE fillRow(columns, dests, cells, i + 1,
                 (columns[i].Name :> rowValue(columns[i], dests, cells, i)) @@ row)

\* the row loop returning the rows read before a row that fails to scan
RECURSIVE QueryDataLoopPartial(_, _, _, _, _)
QueryDataLoopPartial(cursor, columns, i, results, log) ==
    IF i > Len(cursor.rows)
    THEN IF cursor.iterErr
         THEN Out("ResultError", <<>>, <<>>, <<>>, log \o <<"Next", "Err">>, <<>>)
         ELSE Out("nil", <<>>, columns, results, log \o <<"Next", "Err">>, <<>>)
    ELSE IF ~cursor.rows[i].scanOk
    THEN Out("RowScanFailed", <<>>, columns, results, log \o <<"Next", "Scan">>,
             <<>>)
    ELSE QueryDataLoopPartial(cursor, columns, i + 1,
             Append(results,
                    fillRow(columns, destPointers(columns), cursor.rows[i].cells,
                            1, <<>>)),
             log \o <<"Next", "Scan">>)

\* the row loop and the rows.Err() check (265-331)
RECURSIVE QueryDataLoop(_, _, _, _, _)
QueryDataLoop(cursor, columns, i, results, log) ==
    IF i > Len(cursor.rows)
    THEN IF cursor.iterErr
         THEN Out("ResultError", <<>>, <<>>, <<>>, log \o <<"Next", "Err">>, <<>>)
         ELSE Out("nil", <<>>, columns, results, log \o <<"Next", "Err">>, <<>>)
    ELSE IF ~cursor.rows[i].scanOk
    THEN Out("RowScanFailed", <<>>, <<>>, <<>>, log \o <<"Next", "Scan">>, <<>>)
    ELSE QueryDataLoop(cursor, columns, i + 1,
             Append(results,
                    fillRow(columns, destPointers(columns), cursor.rows[i].cells,
                            1, <<>>)),
             log \o <<"Next", "Scan">>)

\* ensureConnection with the error of the ping dropped
ensureConnectionUnchecked(env) == TRUE

\* c.ensureConnection (335-340)
ensureConnection(env) == env.pingOk

\* QueryData closing the connection when the ping fails
QueryDataClosingOnFailure(query, limit, env) ==
    LET text == limitedQuery(query, limit)
    IN  IF ~ensureConnection(env)
        THEN Out("ConnectionError", <<>>, <<>>, <<>>, <<"Ping", "ConnClose">>,
                 <<>>)
        ELSE IF ~env.queryOk
        THEN Out("QueryFailed", <<>>, <<>>, <<>>, <<"Ping", "Query">>, <<text>>)
        ELSE Deferred(QueryDataLoop(env.cursor, queryColumns(env.cursor), 1, <<>>,
                                    <<"Ping", "Query", "ColumnTypes">>),
                      <<text>>)

QueryData(query, limit, env) ==
    LET text == limitedQuery(query, limit)
    IN  IF ~ensureConnection(env)
        THEN Out("ConnectionError", <<>>, <<>>, <<>>, <<"Ping">>, <<>>)
        ELSE IF ~env.queryOk
        THEN Out("QueryFailed", <<>>, <<>>, <<>>, <<"Ping", "Query">>, <<text>>)
        ELSE Deferred(QueryDataLoop(env.cursor, queryColumns(env.cursor), 1, <<>>,
                                    <<"Ping", "Query", "ColumnTypes">>),
                      <<text>>)

(***************************************************************************)
(* The tool handlers (mcp/tools.go).  An argument of a request is          *)
(* [k, s, x]: k is "absent", "string", "number" or "bool", s the text of a *)
(* string and x a number in tenths (25 is 2.5).  A handler returns         *)
(* [result, goErr]; here also called, whether the client was called, limit,*)
(* the cap given to QueryData, and out, what the client call did.          *)
(***************************************************************************)
Absent == [k |-> "absent", s |-> <<>>, x |-> 0]
StrArg(s) == [k |-> "string", s |-> s, x |-> 0]
NumArg(x) == [k |-> "number", s |-> <<>>, x |-> x]
BoolArg == [k |-> "bool", s |-> <<>>, x |-> 1]

\* int(limitVal): a float64 truncated towards zero
intOf(x) == IF x >= 0 THEN x \div 10 ELSE -((-x) \div 10)

NilResult == [IsError |-> FALSE, msg |-> "<nil>", items |-> <<>>]
NewToolResultError(msg) == [IsError |-> TRUE, msg |-> msg, items |-> <<>>]
NewToolResultText(msg, items) == [IsError |-> FALSE, msg |-> msg, items |-> items]

NoCall == Out("nil", <<>>, <<>>, <<>>, <<>>, <<>>)

Returned(result, goErr, called, limit, out) ==
    [result |-> result, goErr |-> goErr, called |-> called, limit |-> limit,
     out |-> out]

HandleGetDatabasesTool(arguments, env) ==
    LET r == GetDatabases(env)
    IN  IF r.err # "nil"
        THEN Returned(NewToolResultError("GetDatabasesError"), "nil", TRUE, 0, r)
        ELSE Returned(NewToolResultText("Databases", r.names), "nil", TRUE, 0, r)

HandleGetTablesTool(arguments, env) ==
    IF arguments.database.k # "string"
    THEN Returned(NewToolResultError("DatabaseRequired"), "nil", FALSE, 0, NoCall)
    ELSE LET r == GetTables(arguments.database.s, env)
         IN  IF r.err # "nil"
             THEN Returned(NewToolResultError("GetTablesError"), "nil", TRUE, 0, r)
             ELSE IF Len(r.names) = 0
             THEN Returned(NewToolResultText("NoTables", <<>>), "nil", TRUE, 0, r)
             ELSE Returned(NewToolResultText("Tables", r.names), "nil", TRUE, 0, r)

\* HandleGetTableSchemaTool refusing only when both arguments are missing
HandleGetTableSchemaToolBoth(arguments, env) ==
    IF arguments.database.k # "string" /\ arguments.table.k # "string"
    THEN Returned(NewToolResultError("DatabaseAndTableRequired"), "nil", FALSE, 0,
                  NoCall)
    ELSE LET r == GetTableSchema(arguments.database.s, arguments.table.s, env)
         IN  IF r.err # "nil"
             THEN Returned(NewToolResultError("GetSchemaError"), "nil", TRUE, 0, r)
             ELSE IF Len(r.Columns) = 0
             THEN Returned(NewToolResultText("NoColumns", <<>>), "nil", TRUE, 0, r)
             ELSE Returned(NewToolResultText("Schema",
                               [i \in 1..Len(r.Columns) |-> r.Columns[i].Name]),
                           "nil", TRUE, 0, r)

HandleGetTableSchemaTool(arguments, env) ==
    IF arguments.database.k # "string" \/ arguments.table.k # "string"
    THEN Returned(NewToolResultError("DatabaseAndTableRequired"), "nil", FALSE, 0,
                  NoCall)
    ELSE LET r == GetTableSchema(arguments.database.s, arguments.table.s, env)
         IN  IF r.err # "nil"
             THEN Returned(NewToolResultError("GetSchemaError"), "nil", TRUE, 0, r)
             ELSE IF Len(r.Columns) = 0
             THEN Returned(NewToolResultText("NoColumns", <<>>), "nil", TRUE, 0, r)
             ELSE Returned(NewToolResultText("Schema",
                               [i \in 1..Len(r.Columns) |-> r.Columns[i].Name]),
                           "nil", TRUE, 0, r)

\* json.MarshalIndent fails on a float that is not a number
jsonMarshals(results) ==
    \A i \in 1..Len(results.Rows) : \A name \in DOMAIN results.Rows[i] :
        LET v == results.Rows[i][name]
        IN  /\ ~(v.k = "float64" /\ v.s = sNaN)
            /\ \A j \in 1..Len(v.items) :
                   ~(v.items[j].k = "float64" /\ v.items[j].s = sNaN)

\* the default of the limit argument (tools.go 133)
DefaultLimit == 100

\* HandleQueryTool looking at the columns before the error
HandleQueryToolColumnsFirst(arguments, env) ==
    IF arguments.query.k # "string"
    THEN Returned(NewToolResultError("QueryRequired"), "nil", FALSE, 0, NoCall)
    ELSE LET limit == IF arguments.limit.k = "number"
                      THEN intOf(arguments.limit.x)
                      ELSE DefaultLimit
             results == QueryData(arguments.query.s, limit, env)
         IN  IF Len(results.Columns) = 0
             THEN Returned(NewToolResultText("NoResults", <<>>), "nil", TRUE, limit,
                           results)
             ELSE IF results.err # "nil"
             THEN Returned(NewToolResultError("QueryError"), "nil", TRUE, limit,
                           results)
             ELSE IF ~jsonMarshals(results)
             THEN Returned(NewToolResultError("FormatError"), "nil", TRUE, limit,
                           results)
             ELSE Returned(NewToolResultText("Json", <<>>), "nil", TRUE, limit,
                           results)

HandleQueryTool(arguments, env) ==
    IF arguments.query.k # "string"
    THEN Returned(NewToolResultError("QueryRequired"), "nil", FALSE, 0, NoCall)
    ELSE LET limit == IF arguments.limit.k = "number"
                      THEN intOf(arguments.limit.x)
                      ELSE DefaultLimit
             results == QueryData(arguments.query.s, limit, env)
         IN  IF results.err # "nil"
             THEN Returned(NewToolResultError("QueryError"), "nil", TRUE, limit,
                           results)
             ELSE IF Len(results.Columns) = 0
             THEN Returned(NewToolResultText("NoResults", <<>>), "nil", TRUE, limit,
                           results)
             ELSE IF ~jsonMarshals(results)
             THEN Returned(NewToolResultError("FormatError"), "nil", TRUE, limit,
                           results)
             ELSE Returned(NewToolResultText("Json", <<>>), "nil", TRUE, limit,
                           results)

(***************************************************************************)
(* The server (app/server.go): the connection URL.                         *)
(***************************************************************************)
\* strings.TrimPrefix
TrimPrefix(s, prefix) ==
    IF HasPrefix(s, prefix) THEN SliceFrom(s, Len(prefix)) ELSE s

DecimalDigit(c) == \E d \in 1..Len(Digits) : Digits[d] = c
DecimalValue(c) == (CHOOSE d \in 1..Len(Digits) : Digits[d] = c) - 1

\* the characters the scanner takes for a %d number: the decimal digits
\* only (fmt/scan.go, getBase; the underscore belongs to %v alone)
RECURSIVE NumberPrefix(_)
NumberPrefix(s) ==
    IF s # <<>> /\ DecimalDigit(Head(s))
    THEN <<Head(s)>> \o NumberPrefix(Tail(s))
    ELSE <<>>

RECURSIVE StrToNat(_)
StrToNat(d) ==
    IF d = <<>> THEN 0
    ELSE StrToNat(SliceTo(d, Len(d) - 1)) * 10 + DecimalValue(d[Len(d)])

\* the digits of 2^63 - 1 and of 2^63: the greatest int64 and the magnitude of
\* the least
sMaxInt64 == <<"9","2","2","3","3","7","2","0","3","6","8","5","4","7","7","5","8","0","7">>
sMinInt64 == <<"9","2","2","3","3","7","2","0","3","6","8","5","4","7","7","5","8","0","8">>

\* d without the zeros it starts with, its last digit kept
RECURSIVE StripLeadingZeros(_)
StripLeadingZeros(d) ==
    IF Len(d) > 1 /\ Head(d) = "0" THEN StripLeadingZeros(Tail(d)) ELSE d

\* a <= b for two numbers of as many digits
RECURSIVE DigitsLE(_, _)
DigitsLE(a, b) ==
    IF a = <<>> THEN TRUE
    ELSE IF Head(a) = Head(b) THEN DigitsLE(Tail(a), Tail(b))
    ELSE DecimalValue(Head(a)) < DecimalValue(Head(b))

\* the number of the digits m, without zeros in front, is at most that of lim
AtMost(m, lim) == Len(m) < Len(lim) \/ (Len(m) = Len(lim) /\ DigitsLE(m, lim))

\* strconv.ParseInt(tok, 10, 64) has no range error: the number is within
\* -2^63 .. 2^63 - 1
FitsInt64(tok, negative) ==
    AtMost(StripLeadingZeros(tok), IF negative THEN sMinInt64 ELSE sMaxInt64)

\* ss.SkipSpace of the scanner: white space is skipped up to a line break,
\* which is left in place and is an error of the scan ("\r\n" is one)
RECURSIVE SkipSpace(_)
SkipWidth(s, w) == IF w > 0 THEN SkipSpace(SliceFrom(s, w)) ELSE s
SkipSpace(s) ==
    IF s = <<>> \/ Head(s) = "\n" THEN s ELSE SkipWidth(s, SpaceWidthLeft(s))

\* fmt.Sscanf(str, "%d", &port): [err, n].  White space is skipped, a sign
\* is accepted, the decimal digits that follow are the token, which
\* strconv.ParseInt reads in base 10 as an int64 (a number outside int64 is
\* a range error), and what is behind the token, an underscore included, is
\* not read; without a token the scan fails
Sscanf(str) ==
    LET s1 == SkipSpace(str)
        signed == s1 # <<>> /\ Head(s1) \in {"+", "-"}
        negative == signed /\ Head(s1) = "-"
        s2 == IF signed THEN Tail(s1) ELSE s1
        tok == NumberPrefix(s2)
    IN  IF tok = <<>> \/ ~FitsInt64(tok, negative)
        THEN [err |-> TRUE, n |-> 0]
        ELSE [err |-> FALSE,
              n |-> IF negative THEN 0 - StrToNat(tok) ELSE StrToNat(tok)]

sLocalhost == <<"l","o","c","a","l","h","o","s","t">>
sDefault == <<"d","e","f","a","u","l","t">>
sScheme == <<"c","l","i","c","k","h","o","u","s","e",":","/","/">>

\* the default port (server.go 40, 51, 61)
DefaultPort == 9000

\* what ParseClickhouseURL returns: (host, port, database, err)
ParseResult(host, port, database, err) ==
    [host |-> host, port |-> port, database |-> database, err |-> err]

\* ParseClickhouseURL taking the defaults for "localhost" itself only
ParseClickhouseURLExactLocalhost(url) ==
    IF url = <<>> \/ url = sLocalhost
    THEN ParseResult(sLocalhost, DefaultPort, sDefault, "nil")
    ELSE LET parts == Split(TrimPrefix(url, sScheme), <<"/">>)
             hostPortParts == Split(parts[1], <<":">>)
             host == hostPortParts[1]
             port == IF Len(hostPortParts) > 1
                     THEN IF Sscanf(hostPortParts[2]).err THEN DefaultPort
                          ELSE Sscanf(hostPortParts[2]).n
                     ELSE DefaultPort
             database == IF Len(parts) > 1 THEN parts[2] ELSE sDefault
         IN  IF host = <<>> THEN ParseResult(<<>>, 0, <<>>, "InvalidURL")
             ELSE ParseResult(host, port, database, "nil")

ParseClickhouseURL(url) ==
    IF url = <<>> \/ HasPrefix(url, sLocalhost)
    THEN ParseResult(sLocalhost, DefaultPort, sDefault, "nil")
    ELSE LET cleanURL == TrimPrefix(url, sScheme)
             parts == Split(cleanURL, <<"/">>)
             hostPortParts == Split(parts[1], <<":">>)
             host == hostPortParts[1]
             port == IF Len(hostPortParts) > 1
                     THEN IF Sscanf(hostPortParts[2]).err THEN DefaultPort
                          ELSE Sscanf(hostPortParts[2]).n
                     ELSE DefaultPort
             database == IF Len(parts) > 1 THEN parts[2] ELSE sDefault
         IN  IF host = <<>> THEN ParseResult(<<>>, 0, <<>>, "InvalidURL")
             ELSE ParseResult(host, port, database, "nil")

(***************************************************************************)
(* The connection of the client (DefaultClient.conn) and the server that   *)
(* owns the client (app/server.go, main.go).  A connection is [state,      *)
(* Host, Port, Database]; state is "none" (no client), "open" or "closed". *)
(***************************************************************************)
Connection(state, host, port, database) ==
    [state |-> state, Host |-> host, Port |-> port, Database |-> database]

NoConnection == Connection("none", <<>>, 0, <<>>)

\* the connection after the calls of log were made on it
ConnAfter(c, log) ==
    IF \E i \in 1..Len(log) : log[i] = "ConnClose"
    THEN [c EXCEPT !.state = "closed"]
    ELSE c

\* DefaultClient.Close (client.go 405-407)
Close(c) == ConnAfter(c, <<"ConnClose">>)

\* the flags of main: ServerConfig
ServerConfig(transport, testMode, url, database) ==
    [Transport |-> transport, TestMode |-> testMode, ClickhouseURL |-> url,
     Database |-> database]

\* the defaults of the flags (main.go 25-35)
DefaultConfig ==
    ServerConfig("stdio", FALSE,
                 <<"l","o","c","a","l","h","o","s","t",":","9","0","0","0",
                   "/","d","e","f","a","u","l","t">>,
                 <<>>)

\* what NewServer and connectToClickhouse return: the error and chClient
ServerResult(err, chClient) == [err |-> err, chClient |-> chClient]

\* clickhouse.NewClient: the connection is opened and pinged; connects is
\* the answer of the database
NewClient(host, port, database, connects) ==
    IF connects
    THEN ServerResult("nil", Connection("open", host, port, database))
    ELSE ServerResult("ConnectFailed", NoConnection)

connectToClickhouse(cfg, connects) ==
    LET parsed == ParseClickhouseURL(cfg.ClickhouseURL)
    IN  IF parsed.err # "nil" THEN ServerResult(parsed.err, NoConnection)
        ELSE NewClient(parsed.host, parsed.port,
                       IF cfg.Database # <<>> THEN cfg.Database
                       ELSE parsed.database,
                       connects)

NewServer(cfg, connects) ==
    IF cfg.TestMode THEN ServerResult("nil", NoConnection)
    ELSE connectToClickhouse(cfg, connects)

\* Server.Close (server.go 203-208)
ServerClose(chClient) ==
    IF chClient.state # "none" THEN Close(chClient) ELSE chClient

(***************************************************************************)
(* The inputs of the model: requests, and answers of the driver.           *)
(***************************************************************************)
SeqsUpTo(S, n) == UNION {[1..k -> S] : k \in 0..n}

RECURSIVE Flatten(_)
Flatten(ss) == IF ss = <<>> THEN <<>> ELSE Head(ss) \o Flatten(Tail(ss))

\* the pieces query texts are put together from
QueryFragments ==
    {<<"x">>, <<" ">>, <<"\n">>, <<";">>, <<"-","-">>, <<"/","*">>, <<"*","/">>,
     <<" ","L","I","M","I","T"," ","1">>, <<" ","l","i","m","i","t"," ","1">>,
     <<"\n","L","I","M","I","T"," ","1">>, <<"\t","L","I","M","I","T","\t","1">>}

Cursor(cols, rows, iterErr) == [cols |-> cols, rows |-> rows, iterErr |-> iterErr]
Env(pingOk, queryOk, cursor) ==
    [pingOk |-> pingOk, queryOk |-> queryOk, cursor |-> cursor]

EmptyCursor == Cursor(<<>>, <<>>, FALSE)

\* a row whose Scan fails, and a row of strings
BadRow == [scanOk |-> FALSE, cells |-> <<>>]
StringRow(ss) == [scanOk |-> TRUE, cells |-> [i \in 1..Len(ss) |-> StringVal(ss[i])]]

NameColumn == [name |-> <<"n","a","m","e">>, type |-> tString]

\* the cursors of a one-column listing statement over the given names
ListingEnvs(names) ==
    {Env(TRUE, FALSE, EmptyCursor)} \cup
    {Env(TRUE, TRUE, Cursor(<<NameColumn>>, rows, e)) :
        rows \in SeqsUpTo({BadRow} \cup {StringRow(<<n>>) : n \in names}, MaxRows),
        e \in BOOLEAN}

DatabaseNames ==
    {sSystem, sInformationSchema, <<"d","e","f","a","u","l","t">>,
     <<"a","n","a","l","y","t","i","c","s">>}

TableNames == {<<"t","1">>, <<"t","2">>}

\* the seven columns of DESCRIBE TABLE
DescribeColumns ==
    [i \in 1..7 |->
        [name |-> <<<<"n","a","m","e">>, <<"t","y","p","e">>,
                    <<"d","e","f","a","u","l","t","_","t","y","p","e">>,
                    <<"d","e","f","a","u","l","t","_","e","x","p","r">>,
                    <<"c","o","m","m","e","n","t">>,
                    <<"c","o","d","e","c","_","e","x","p","r">>,
                    <<"t","t","l","_","e","x","p","r">>>>[i],
         type |-> tString]]

DescribeRow(name, typ) == StringRow(<<name, typ, <<>>, <<>>, <<>>, <<>>, <<>>>>)

SchemaEnvs ==
    {Env(TRUE, FALSE, EmptyCursor)} \cup
    {Env(TRUE, TRUE, Cursor(DescribeColumns, rows, e)) :
        rows \in SeqsUpTo({BadRow} \cup
                          {DescribeRow(<<"c">>, t) :
                              t \in {tUInt32, tString, tArrayString, tNested, tArrays}},
                          MaxRows),
        e \in BOOLEAN}

\* what the driver delivers into an any variable
RawAnyValues ==
    << Val("bytes", 0, <<"a","b">>, ZeroTime, <<>>),
       Val("anyseq", 0, <<>>, ZeroTime,
           <<Item("bytes", 0, <<"a">>), Item("bytes", 0, <<"b">>)>>),
       Val("anyseq", 0, <<>>, ZeroTime,
           <<Item("bytes", 0, <<"a">>), Item("int64", 7, <<>>),
             Item("float64", 2100000, <<>>)>>),
       Val("anyseq", 0, <<>>, ZeroTime,
           <<Item("int64", 7, <<>>), Item("bytes", 0, <<"a">>)>>),
       Val("anyseq", 0, <<>>, ZeroTime, <<>>),
       Val("time", 0, <<>>, <<2024, 2, 29, 23, 59, 58>>, <<>>) >>

Variants == 1..Len(RawAnyValues)

\* the cell the driver delivers for a column of a declared type, in the v-th
\* of the rows the model draws from
DriverCell(typ, v) ==
    CASE typ = tString -> StringVal(<<"s", Digits[v + 1]>>)
      [] typ \in {tUInt8, tUInt16, tUInt32, tUInt64} ->
            Val("uint64", v, <<>>, ZeroTime, <<>>)
      [] typ \in {tInt8, tInt16, tInt32, tInt64} ->
            Val("int64", 0 - v, <<>>, ZeroTime, <<>>)
      [] typ \in {tFloat32, tFloat64} ->
            Val("float64", v, IF v = 1 THEN sNaN ELSE <<>>, ZeroTime, <<>>)
      [] typ = tBool -> Val("bool", v % 2, <<>>, ZeroTime, <<>>)
      [] typ \in {tDate, tDateTime} ->
            Val("time", 0, <<>>, <<2024, v, 10 + v, v, 0, 59>>, <<>>)
      [] OTHER -> RawAnyValues[v]

\* the v-th row over the columns cols; the row 0 does not scan
DriverRow(cols, v) ==
    [scanOk |-> v # 0,
     cells |-> [i \in 1..Len(cols) |-> DriverCell(cols[i].type, IF v = 0 THEN 1 ELSE v)]]

\* a result has no column, or one column of any type, or a first column of
\* one of a few types and further columns of a few types, of which two have
\* the name of the first
FirstColumns == {[name |-> <<"a">>, type |-> t] : t \in TypeNames}
LeadColumns ==
    {[name |-> <<"a">>, type |-> t] : t \in {tUInt8, tDateTime64, tArrayString}}
MoreColumns ==
    {[name |-> <<"a">>, type |-> tString], [name |-> <<"b">>, type |-> tUInt8],
     [name |-> <<"a">>, type |-> tArrayString]}

ColumnLists ==
    {<<>>} \cup {<<c>> : c \in FirstColumns} \cup
    {<<c>> \o more : c \in LeadColumns,
                     more \in SeqsUpTo(MoreColumns, MaxCols - 1) \ {<<>>}}

\* the rows of a cursor: no row is read after a row that does not scan
RowChoices ==
    {vs \in SeqsUpTo({0} \cup Variants, MaxRows) :
        \A i \in 1..(Len(vs) - 1) : vs[i] # 0}

ResultCursor(cols, vs, iterErr) ==
    Cursor(cols, [i \in 1..Len(vs) |-> DriverRow(cols, vs[i])], iterErr)

NoArguments ==
    [database |-> Absent, table |-> Absent, query |-> Absent, limit |-> Absent]

sDb == <<"d","b">>
sTable == <<"t">>

Scenario(arguments, env) == [arguments |-> arguments, env |-> env]

GetDatabasesScenarios ==
    {Scenario(NoArguments, env) : env \in ListingEnvs(DatabaseNames)}

GetTablesScenarios ==
    {Scenario([NoArguments EXCEPT !.database = a], Env(TRUE, TRUE, EmptyCursor)) :
        a \in {Absent, NumArg(10), BoolArg}}
    \cup {Scenario([NoArguments EXCEPT !.database = StrArg(sDb)], env) :
            env \in ListingEnvs(TableNames)}

GetTableSchemaScenarios ==
    {Scenario([NoArguments EXCEPT !.database = a, !.table = b],
              Env(TRUE, TRUE, EmptyCursor)) :
        a \in {Absent, NumArg(10), StrArg(sDb)}, b \in {Absent, BoolArg}}
    \cup {Scenario([NoArguments EXCEPT !.database = a, !.table = StrArg(sTable)],
                   Env(TRUE, TRUE, EmptyCursor)) : a \in {Absent, NumArg(10)}}
    \cup {Scenario([NoArguments EXCEPT !.database = StrArg(sDb),
                                       !.table = StrArg(sTable)], env) :
            env \in SchemaEnvs}

LimitArguments ==
    {Absent, StrArg(<<"1","0">>), NumArg(0), NumArg(25), NumArg(100),
     NumArg(0 - 15)}

FragmentLists == SeqsUpTo(QueryFragments, MaxFrags)

\* the limits every query text is sent with
TextLimits == {Absent, NumArg(0), NumArg(25), NumArg(100)}

QueryArguments(q, l) == [NoArguments EXCEPT !.query = StrArg(q), !.limit = l]

\* requests without a query string
QueryShapeScenarios ==
    {Scenario([NoArguments EXCEPT !.query = a, !.limit = l],
              Env(TRUE, TRUE, EmptyCursor)) :
        a \in {Absent, NumArg(10)}, l \in LimitArguments}

\* a few query texts with every limit on a connection that fails
QueryFailureScenarios ==
    {Scenario(QueryArguments(q, l), e) :
        q \in {<<"x">>, <<"x", ";">>, <<"x", "\n", "L", "I", "M", "I", "T", " ", "1">>},
        l \in LimitArguments,
        e \in {Env(FALSE, TRUE, EmptyCursor), Env(FALSE, FALSE, EmptyCursor),
               Env(TRUE, FALSE, EmptyCursor)}}

(***************************************************************************)
(* The state machine: a request is served by one handler.  The handler     *)
(* waits for the driver at conn.Ping, conn.Query, every rows.Next and      *)
(* rows.Close; it takes one step per wait, and the owner of the client may *)
(* close the client between two of them.                                   *)
(***************************************************************************)
\* fn, input and output are a call of one of the functions of client.go on
\* its own: the function, the string it is given and what the call does
\* conn is the connection of the client; config, mainPc and exitCode are the
\* process: its flags, where main is and the exit code
\* calls are the calls of QueryData that run at the same time on the client
\* handler is the handler that runs: what the answers env of the driver make
\* it return, and the number of its waits for the driver that are over
VARIABLES pc, tool, arguments, env, ret, fn, input, output, conn,
          config, mainPc, exitCode, calls, handler

toolVars == <<pc, tool, arguments, env, ret, handler>>
callVars == <<fn, input, output>>
mainVars == <<config, mainPc, exitCode>>
vars == <<pc, tool, arguments, env, ret, fn, input, output, conn,
          config, mainPc, exitCode, calls, handler>>

NoReturn == Returned(NilResult, "nil", FALSE, 0, NoCall)
NoOutput == ReturnsText(<<>>)

Handler(r, waited) == [ret |-> r, waited |-> waited]
NoHandler == Handler(NoReturn, 0)

\* the calls of log that wait for the network
Waits(log) ==
    Cardinality({i \in 1..Len(log) : log[i] \in {"Ping", "Query", "Next", "Close"}})

Init ==
    /\ pc = "idle"
    /\ handler = NoHandler
    /\ tool = "none"
    /\ arguments = NoArguments
    /\ env = Env(TRUE, TRUE, EmptyCursor)
    /\ ret = NoReturn
    /\ fn = "none"
    /\ input = <<>>
    /\ output = NoOutput
    /\ conn = Connection("open", sLocalhost, DefaultPort, sDefault)
    /\ config = DefaultConfig
    /\ mainPc = "Start"
    /\ exitCode = 0
    /\ calls = <<>>

\* a request arrives while the client is open and its handler starts; the
\* handler will return r
Serve(name, sc, r) ==
    /\ conn.state = "open"
    /\ pc' = "running"
    /\ tool' = name
    /\ arguments' = sc.arguments
    /\ env' = sc.env
    /\ handler' = Handler(r, 0)
    /\ UNCHANGED <<ret, conn, callVars, mainVars, calls>>

\* the driver answers the call the handler waits for
DriverAnswers ==
    /\ pc = "running"
    /\ handler.waited < Waits(handler.ret.out.log)
    /\ handler' = [handler EXCEPT !.waited = handler.waited + 1]
    /\ UNCHANGED <<pc, tool, arguments, env, ret, conn, callVars, mainVars, calls>>

\* the handler returns
Return ==
    /\ pc = "running"
    /\ handler.waited = Waits(handler.ret.out.log)
    /\ pc' = "returned"
    /\ ret' = handler.ret
    /\ conn' = ConnAfter(conn, handler.ret.out.log)
    /\ handler' = NoHandler
    /\ UNCHANGED <<tool, arguments, env, callVars, mainVars, calls>>

GetDatabasesTool ==
    /\ pc = "idle"
    /\ \E sc \in GetDatabasesScenarios :
        Serve("get_databases", sc, HandleGetDatabasesTool(sc.arguments, sc.env))

GetTablesTool ==
    /\ pc = "idle"
    /\ \E sc \in GetTablesScenarios :
        Serve("get_tables", sc, HandleGetTablesTool(sc.arguments, sc.env))

GetTableSchemaTool ==
    /\ pc = "idle"
    /\ \E sc \in GetTableSchemaScenarios :
        Serve("get_schema", sc, HandleGetTableSchemaTool(sc.arguments, sc.env))

\* the query tool: a request without a query string; a query with every
\* limit on a connection that fails; every query text with a few limits on a
\* connection that returns nothing; one query text on every cursor
QueryTool ==
    /\ pc = "idle"
    /\ \/ \E sc \in QueryShapeScenarios \cup QueryFailureScenarios :
             Serve("query", sc, HandleQueryTool(sc.arguments, sc.env))
       \/ \E fs \in FragmentLists, l \in TextLimits :
             LET sc == Scenario(QueryArguments(Flatten(fs), l),
                                Env(TRUE, TRUE, EmptyCursor))
             IN  Serve("query", sc, HandleQueryTool(sc.arguments, sc.env))
       \/ \E cols \in ColumnLists, vs \in RowChoices, e \in BOOLEAN :
             LET sc == Scenario(QueryArguments(<<"x">>, Absent),
                                Env(TRUE, TRUE, ResultCursor(cols, vs, e)))
             IN  Serve("query", sc, HandleQueryTool(sc.arguments, sc.env))

\* the server is ready for the next request
NextRequest ==
    /\ pc = "returned"
    /\ pc' = "idle"
    /\ tool' = "none"
    /\ arguments' = NoArguments
    /\ env' = Env(TRUE, TRUE, EmptyCursor)
    /\ ret' = NoReturn
    /\ UNCHANGED <<handler, callVars, conn, mainVars, calls>>

\* the owner closes the client, also while a handler runs; no request is
\* served after that
CloseClient ==
    /\ conn.state = "open"
    /\ conn' = Close(conn)
    /\ UNCHANGED <<toolVars, callVars, mainVars, calls>>

Next ==
    \/ GetDatabasesTool
    \/ GetTablesTool
    \/ GetTableSchemaTool
    \/ QueryTool
    \/ DriverAnswers
    \/ Return
    \/ NextRequest
    \/ CloseClient

Spec == Init /\ [][Next]_vars

(***************************************************************************)
(* The functions of client.go on their own: a string is drawn, and one of  *)
(* the functions is called on it.                                          *)
(***************************************************************************)
\* the pieces type strings are put together from
TypeFragments ==
    {<<"A">>, <<"A","r","r","a","y">>, <<"(">>, <<")">>, <<"s">>,
     <<"I","n","t","3","2">>, <<"N","e","s","t","e","d">>}

TypeInputs ==
    {Flatten(fs) : fs \in SeqsUpTo(TypeFragments, MaxTypeFrags)}
        \cup TypeNames \cup {tArrayArrayInt32}

\* a limit written with the dotless i (U+0131)
sDotlessLimit ==
    <<" ", "l">> \o EncodeRune(305) \o <<"m">> \o EncodeRune(305) \o <<"t", " ", "1">>

\* query texts, also with quotes around a LIMIT, with a lone slash, with a
\* vertical tab and with a no-break space
TextFragments ==
    QueryFragments \cup {<<"'">>, <<"/">>, <<"L","I","M","I","T"," ","1">>}
        \cup {<<"">>, EncodeRune(160), sDotlessLimit}

TextInputs == {Flatten(fs) : fs \in SeqsUpTo(TextFragments, MaxFrags)}

\* the pieces connection URLs are put together from; the last is a port
\* above the greatest int64
UrlFragments ==
    {sLocalhost, sScheme, <<"h">>, <<"x">>, <<"8">>, <<":">>, <<"/">>,
     <<":","8">>, <<":","-","8">>, <<"/","x">>, <<"\f">>, <<"_">>, sMinInt64}

UrlInputs == {Flatten(fs) : fs \in SeqsUpTo(UrlFragments, MaxUrlFrags)}

InitFunctions ==
    /\ pc = "idle"
    /\ handler = NoHandler
    /\ tool = "none"
    /\ arguments = NoArguments
    /\ env = Env(TRUE, TRUE, EmptyCursor)
    /\ ret = NoReturn
    /\ fn = "none"
    /\ \/ input \in TypeInputs
       \/ input \in TextInputs
       \/ input \in UrlInputs
    /\ output = NoOutput
    /\ conn = NoConnection
    /\ config = DefaultConfig
    /\ mainPc = "main"
    /\ exitCode = 0
    /\ calls = <<>>

Call(name, result) ==
    /\ fn = "none"
    /\ fn' = name
    /\ output' = result
    /\ UNCHANGED <<input, toolVars, conn, mainVars, calls>>

CallIsArrayType ==
    input \in TypeInputs /\ Call("IsArrayType", ReturnsBool(IsArrayType(input)))

CallIsNestedType ==
    input \in TypeInputs /\ Call("IsNestedType", ReturnsBool(IsNestedType(input)))

CallGetBaseType ==
    input \in TypeInputs /\ Call("GetBaseType", GetBaseType(input))

CallNormalizeQuery ==
    input \in TextInputs /\ Call("normalizeQuery", ReturnsText(normalizeQuery(input)))

CallRemoveComments ==
    input \in TextInputs /\ Call("removeComments", ReturnsText(removeComments(input)))

CallContainsLimitClause ==
    /\ input \in TextInputs
    /\ Call("containsLimitClause", ReturnsBool(containsLimitClause(input)))

CallParseClickhouseURL ==
    input \in UrlInputs /\ Call("ParseClickhouseURL", ParseClickhouseURL(input))

NextFunctions ==
    \/ CallParseClickhouseURL
    \/ CallIsArrayType
    \/ CallIsNestedType
    \/ CallGetBaseType
    \/ CallNormalizeQuery
    \/ CallRemoveComments
    \/ CallContainsLimitClause

SpecFunctions == InitFunctions /\ [][NextFunctions]_vars

(***************************************************************************)
(* The process (main.go): the flags are parsed, the server is made, it     *)
(* serves until Start returns, and main ends.                              *)
(***************************************************************************)
\* the flags main can be started with
Configs ==
    {ServerConfig(t, m, url, db) :
        t \in {"stdio", "sse"}, m \in BOOLEAN,
        url \in UrlInputs \cup {DefaultConfig.ClickhouseURL},
        db \in {<<>>, <<"d","b">>}}

InitMain ==
    /\ pc = "idle"
    /\ handler = NoHandler
    /\ tool = "none"
    /\ arguments = NoArguments
    /\ env = Env(TRUE, TRUE, EmptyCursor)
    /\ ret = NoReturn
    /\ fn = "none"
    /\ input = <<>>
    /\ output = NoOutput
    /\ conn = NoConnection
    /\ config \in Configs
    /\ mainPc = "main"
    /\ exitCode = 0
    /\ calls = <<>>

\* os.Exit(code): the process ends at once, deferred calls do not run
Exit(code) ==
    /\ mainPc' = "exited"
    /\ exitCode' = code

\* main up to the call of Start (main.go 11-67): without a URL, or when
\* NewServer fails, it exits with 1; otherwise server.Close is deferred
MainNewServer ==
    /\ mainPc = "main"
    /\ \E connects \in BOOLEAN :
          LET server == NewServer(config, connects)
          IN  IF config.ClickhouseURL = <<>> THEN Exit(1) /\ UNCHANGED conn
              ELSE IF server.err # "nil" THEN Exit(1) /\ UNCHANGED conn
              ELSE /\ mainPc' = "Start"
                   /\ conn' = server.chClient
                   /\ UNCHANGED exitCode
    /\ UNCHANGED <<toolVars, callVars, config, calls>>

\* Start returns an error (server.go 186-197) and main exits (main.go 69-72)
MainStartFails ==
    /\ mainPc = "Start"
    /\ ~config.TestMode
    /\ Exit(1)
    /\ UNCHANGED <<toolVars, callVars, config, conn, calls>>

\* Start returns nil and main returns: the deferred server.Close runs
MainStartReturns ==
    /\ mainPc = "Start"
    /\ mainPc' = "exited"
    /\ exitCode' = 0
    /\ conn' = ServerClose(conn)
    /\ UNCHANGED <<toolVars, callVars, config, calls>>

NextMain ==
    \/ MainNewServer
    \/ MainStartFails
    \/ MainStartReturns

SpecMain == InitMain /\ [][NextMain]_vars

(***************************************************************************)
(* Two calls of QueryData run at the same time on one client.  A call is   *)
(* the locals of QueryData (client.go 191-332): its arguments, the cursor  *)
(* it was given (env), where it is (at), the index of the row it is at,    *)
(* its scan variables (buf), its columns and results, what it is about to  *)
(* return (out) and what it returns (ret).  A call takes a step per wait   *)
(* for the driver, interleaved with the steps of the other call.           *)
(***************************************************************************)
\* the two statements read the same two columns
ConcurrentCols ==
    <<[name |-> <<"a">>, type |-> tString], [name |-> <<"b">>, type |-> tArrayString]>>

ConcurrentRows == SeqsUpTo(0..3, MaxRows)

ConcurrentEnvs ==
    {Env(FALSE, TRUE, EmptyCursor), Env(TRUE, FALSE, EmptyCursor)} \cup
    {Env(TRUE, TRUE, ResultCursor(ConcurrentCols, vs, e)) :
        vs \in ConcurrentRows, e \in BOOLEAN}

\* the first call reads one of a few cursors, the second any
FirstCallEnvs ==
    {Env(TRUE, TRUE, ResultCursor(ConcurrentCols, <<1, 2>>, FALSE)),
     Env(TRUE, TRUE, ResultCursor(ConcurrentCols, <<3>>, TRUE)),
     Env(TRUE, TRUE, ResultCursor(ConcurrentCols, <<2, 0>>, FALSE)),
     Env(TRUE, FALSE, EmptyCursor)}

NewCall(query, limit, e) ==
    [query |-> query, limit |-> limit, env |-> e, at |-> "start", i |-> 1,
     columns |-> <<>>, buf |-> <<>>, results |-> <<>>, log |-> <<>>,
     sent |-> <<>>, out |-> NoCall, ret |-> NoCall]

InitConcurrent ==
    /\ pc = "idle"
    /\ handler = NoHandler
    /\ tool = "none"
    /\ arguments = NoArguments
    /\ env = Env(TRUE, TRUE, EmptyCursor)
    /\ ret = NoReturn
    /\ fn = "none"
    /\ input = <<>>
    /\ output = NoOutput
    /\ conn = Connection("open", sLocalhost, DefaultPort, sDefault)
    /\ config = DefaultConfig
    /\ mainPc = "Start"
    /\ exitCode = 0
    /\ \E e1 \in FirstCallEnvs, e2 \in ConcurrentEnvs :
          calls = <<NewCall(<<"x">>, DefaultLimit, e1), NewCall(<<"y", ";">>, 0, e2)>>

\* scan variables kept in the client: every call uses those of the first
scanVarsShared(c) == 1

\* the scan variables the call c scans into and reads: the ones it made
\* itself (233-241)
scanVarsOf(c) == c

\* the call c returns r
ReturnCall(c, r) ==
    calls' = [calls EXCEPT ![c].at = "done", ![c].ret = r, ![c].log = r.log,
                           ![c].sent = r.sent]

\* 192-206: the text is made and the connection is checked
ConcurrentPing(c) ==
    LET call == calls[c]
    IN  /\ call.at = "start"
        /\ IF ~ensureConnection(call.env)
           THEN ReturnCall(c, Out("ConnectionError", <<>>, <<>>, <<>>, <<"Ping">>,
                                  <<>>))
           ELSE calls' = [calls EXCEPT ![c].at = "query", ![c].log = <<"Ping">>]

\* 208-231: the statement is submitted and the columns are read
ConcurrentSubmit(c) ==
    LET call == calls[c]
        text == limitedQuery(call.query, call.limit)
    IN  /\ call.at = "query"
        /\ IF ~call.env.queryOk
           THEN ReturnCall(c, Out("QueryFailed", <<>>, <<>>, <<>>,
                                  call.log \o <<"Query">>, <<text>>))
           ELSE calls' = [calls EXCEPT
                              ![c].at = "loop",
                              ![c].columns = queryColumns(call.env.cursor),
                              ![c].log = call.log \o <<"Query", "ColumnTypes">>,
                              ![c].sent = <<text>>]

\* the call c is about to return r: the deferred rows.Close() is next
Leave(c, r) == calls' = [calls EXCEPT ![c].at = "close", ![c].out = r]

\* 265-269: rows.Next() gives a row and rows.Scan reads it into the scan
\* variables, or fails
ConcurrentScan(c) ==
    LET call == calls[c]
        row == call.env.cursor.rows[call.i]
    IN  /\ call.at = "loop"
        /\ call.i <= Len(call.env.cursor.rows)
        /\ IF ~row.scanOk
           THEN Leave(c, Out("RowScanFailed", <<>>, <<>>, <<>>,
                             call.log \o <<"Next", "Scan">>, <<>>))
           ELSE calls' = [calls EXCEPT
                              ![c].at = "fill",
                              ![c].log = call.log \o <<"Next", "Scan">>,
                              ![scanVarsOf(c)].buf = row.cells]

\* 271-320: the row is made from the scan variables and appended
ConcurrentFill(c) ==
    LET call == calls[c]
    IN  /\ call.at = "fill"
        /\ calls' = [calls EXCEPT
                         ![c].at = "loop",
                         ![c].i = call.i + 1,
                         ![c].results =
                             Append(call.results,
                                    fillRow(call.columns, destPointers(call.columns),
                                            calls[scanVarsOf(c)].buf, 1, <<>>))]

\* 265, 323-331: rows.Next() gives no row and rows.Err() is checked
ConcurrentFinish(c) ==
    LET call == calls[c]
        log == call.log \o <<"Next", "Err">>
    IN  /\ call.at = "loop"
        /\ call.i > Len(call.env.cursor.rows)
        /\ Leave(c, IF call.env.cursor.iterErr
                    THEN Out("ResultError", <<>>, <<>>, <<>>, log, <<>>)
                    ELSE Out("nil", <<>>, call.columns, call.results, log, <<>>))

\* 212: the deferred rows.Close() runs and the call returns
ConcurrentClose(c) ==
    LET call == calls[c]
    IN  /\ call.at = "close"
        /\ ReturnCall(c, Deferred(call.out, call.sent))

NextConcurrent ==
    /\ \E c \in DOMAIN calls :
          \/ ConcurrentPing(c)
          \/ ConcurrentSubmit(c)
          \/ ConcurrentScan(c)
          \/ ConcurrentFill(c)
          \/ ConcurrentFinish(c)
          \/ ConcurrentClose(c)
    /\ UNCHANGED <<toolVars, callVars, conn, mainVars>>

SpecConcurrent == InitConcurrent /\ [][NextConcurrent]_vars

(***************************************************************************)
(* Properties.                                                             *)
(***************************************************************************)
Served(name) == pc = "returned" /\ tool = name

\* QueryData was called and submitted a statement
Submitted == Served("query") /\ ret.called /\ Len(ret.out.sent) = 1

sLimit == <<" ","L","I","M","I","T"," ">>

\* C1: the text QueryData submits is normalizeQuery(q) when the cap is 0, and
\* normalizeQuery(q) followed by " LIMIT <cap>" when the cap is positive and
\* containsLimitClause(normalizeQuery(q)) is false.
C1_RowCapInjection ==
    Submitted =>
        LET clean == normalizeQuery(arguments.query.s)
            text == ret.out.sent[1]
        IN  /\ ret.limit = 0 => text = clean
            /\ (ret.limit > 0 /\ ~containsLimitClause(clean)) =>
                  /\ Len(text) > Len(clean) + Len(sLimit)
                  /\ SubSeq(text, 1, Len(clean)) = clean
                  /\ SubSeq(text, Len(clean) + 1, Len(clean) + Len(sLimit)) = sLimit
                  /\ SubSeq(text, Len(clean) + Len(sLimit) + 1, Len(text))
                         = Itoa(ret.limit)

\* a positive cap was appended to a text that normalization had changed
C1_Witness ==
    /\ Submitted
    /\ ret.limit = 10
    /\ arguments.query.s = <<" ", "x", ";">>
    /\ ret.out.sent[1] = <<"x", " ", "L", "I", "M", "I", "T", " ", "1", "0">>

IsBlank(c) == c \in {" ", "\t", "\n"}

\* q holds no comment and, after some text, the keyword LIMIT between blanks
\* and before a count
HasLimitClause(q) ==
    /\ ~Contains(q, <<"/","*">>)
    /\ ~Contains(q, <<"-","-">>)
    /\ \E i \in 2..Len(q) :
          /\ i + 7 <= Len(q)
          /\ \E j \in 1..(i - 1) : ~IsBlank(q[j]) /\ q[j] # ";"
          /\ IsBlank(q[i])
          /\ ToUpper(SubSeq(q, i + 1, i + 5)) = <<"L","I","M","I","T">>
          /\ IsBlank(q[i + 6])
          /\ \E d \in 1..Len(Digits) : Digits[d] = q[i + 7]

\* C2: for a query that already contains a LIMIT clause (LIMIT delimited by
\* spaces, tabs or newlines, followed by a count) the text submitted is the
\* normalized query, with no second LIMIT, whatever the cap.
C2_CappedQueryUnchanged ==
    (Submitted /\ HasLimitClause(arguments.query.s)) =>
        ret.out.sent[1] = normalizeQuery(arguments.query.s)

Count(log, c) == Cardinality({i \in 1..Len(log) : log[i] = c})

\* C3: in a QueryData call the ping comes first and once; when it fails the
\* call returns the connection error and submits nothing.
C3_PingBeforeSubmit ==
    (Served("query") /\ ret.called) =>
        /\ Len(ret.out.log) >= 1
        /\ ret.out.log[1] = "Ping"
        /\ Count(ret.out.log, "Ping") = 1
        /\ ~env.pingOk =>
              /\ ret.out.err = "ConnectionError"
              /\ ret.out.sent = <<>>
              /\ Count(ret.out.log, "Query") = 0

\* a QueryData call whose ping failed
C3_Witness ==
    /\ Served("query")
    /\ ret.called
    /\ ~env.pingOk
    /\ ret.out.log = <<"Ping">>

\* the connection or the cursor of the call reported a failure
FailureReported ==
    \/ tool = "query" /\ ~env.pingOk
    \/ ~env.queryOk
    \/ \E i \in 1..Len(env.cursor.rows) : ~env.cursor.rows[i].scanOk
    \/ env.cursor.iterErr

\* C4: every failure the connection reports (submission, a row that does not
\* decode, an error that ends the iteration) makes the operation return an
\* error.
C4_NoSwallowedError ==
    (pc = "returned" /\ ret.called /\ FailureReported) => ret.out.err # "nil"

\* C5: a cursor of zero columns makes QueryData return, without error, empty
\* columns and empty rows, whatever the cursor yields, and the query tool
\* answers "executed, no results" without error.
C5_ZeroColumnsEmptyResult ==
    (Submitted /\ env.queryOk /\ Len(env.cursor.cols) = 0 /\ ~FailureReported) =>
        /\ ret.out.err = "nil"
        /\ ret.out.Columns = <<>>
        /\ ret.out.Rows = <<>>
        /\ ret.result = NewToolResultText("NoResults", <<>>)

CursorNames == [i \in 1..Len(env.cursor.rows) |-> env.cursor.rows[i].cells[1].s]

NotReserved(name) == name \notin {sSystem, sInformationSchema}

\* C6: GetDatabases returns the names the cursor yields without "system" and
\* "information_schema", the others kept, duplicates included, in order.
C6_DatabasesFiltered ==
    (Served("get_databases") /\ ret.out.err = "nil") =>
        ret.out.names = SelectSeq(CursorNames, NotReserved)

\* a listing of a reserved name and another one
C6_Witness ==
    /\ Served("get_databases")
    /\ ret.out.err = "nil"
    /\ Len(env.cursor.rows) = 2
    /\ CursorNames[1] = sInformationSchema
    /\ ret.out.names = <<<<"d","e","f","a","u","l","t">>>>

\* a required argument of the tool is missing or is not a string
RequiredMissing ==
    \/ tool = "get_tables" /\ arguments.database.k # "string"
    \/ tool = "get_schema" /\ arguments.database.k # "string"
    \/ tool = "get_schema" /\ arguments.table.k # "string"
    \/ tool = "query" /\ arguments.query.k # "string"

\* C7: with a required argument missing or not a string, the handler returns
\* an error payload and a nil error, and calls nothing on the client.
C7_ArgumentShape ==
    (pc = "returned" /\ RequiredMissing) =>
        /\ ret.result.IsError
        /\ ret.goErr = "nil"
        /\ ~ret.called
        /\ ret.out.log = <<>>
        /\ ret.out.sent = <<>>

\* get_schema with a database and without a table
C7_Witness ==
    /\ Served("get_schema")
    /\ arguments.database.k = "string"
    /\ arguments.table.k = "absent"
    /\ ret.result = NewToolResultError("DatabaseAndTableRequired")

\* C8: a limit that is present and is not a number is answered with an error
\* payload, and QueryData is not called.
C8_LimitShape ==
    (Served("query") /\ arguments.limit.k \notin {"absent", "number"}) =>
        /\ ret.result.IsError
        /\ ~ret.called

\* C9: every handler returns a result and a nil error, and an error payload
\* whenever the client call returned an error.
C9_HandlersReturnPayload ==
    pc = "returned" =>
        /\ ret.result # NilResult
        /\ ret.goErr = "nil"
        /\ (ret.called /\ ret.out.err # "nil") => ret.result.IsError

\* the client failed after rows had been read, and the tool answered
C9_Witness ==
    /\ Served("query")
    /\ ret.called
    /\ ret.out.err = "ResultError"
    /\ Len(env.cursor.cols) = 0
    /\ ret.result.IsError

\* the kind of value the dispatch table gives a declared type; "passthrough"
\* for a type the table does not name
TableKind(typ) ==
    IF typ = <<"S","t","r","i","n","g">> THEN "string"
    ELSE IF typ \in {<<"U","I","n","t","8">>, <<"U","I","n","t","1","6">>,
                     <<"U","I","n","t","3","2">>, <<"U","I","n","t","6","4">>}
    THEN "uint64"
    ELSE IF typ \in {<<"I","n","t","8">>, <<"I","n","t","1","6">>,
                     <<"I","n","t","3","2">>, <<"I","n","t","6","4">>}
    THEN "int64"
    ELSE IF typ \in {<<"F","l","o","a","t","3","2">>, <<"F","l","o","a","t","6","4">>}
    THEN "float64"
    ELSE IF typ = <<"B","o","o","l">> THEN "bool"
    ELSE IF typ \in {<<"D","a","t","e">>, <<"D","a","t","e","T","i","m","e">>}
    THEN "timestamp"
    ELSE "passthrough"

DigitValue(c) == (CHOOSE d \in 1..Len(Digits) : Digits[d] = c) - 1

IsDigit(c) == \E d \in 1..Len(Digits) : Digits[d] = c

TwoDigits(s, i) == DigitValue(s[i]) * 10 + DigitValue(s[i + 1])

\* s is the RFC3339 text of the UTC time t
IsRFC3339Of(s, t) ==
    /\ Len(s) = 20
    /\ \A i \in {1, 2, 3, 4, 6, 7, 9, 10, 12, 13, 15, 16, 18, 19} : IsDigit(s[i])
    /\ s[5] = "-" /\ s[8] = "-" /\ s[11] = "T"
    /\ s[14] = ":" /\ s[17] = ":" /\ s[20] = "Z"
    /\ TwoDigits(s, 1) * 100 + TwoDigits(s, 3) = t[1]
    /\ TwoDigits(s, 6) = t[2]
    /\ TwoDigits(s, 9) = t[3]
    /\ TwoDigits(s, 12) = t[4]
    /\ TwoDigits(s, 15) = t[5]
    /\ TwoDigits(s, 18) = t[6]

\* v is what the passthrough path stores for the cell raw
IsPassthroughOf(v, raw) ==
    \/ raw.k = "bytes" /\ v = StringVal(raw.s)
    \/ raw.k = "anyseq" /\ v.k = "strseq" /\ Len(v.items) = Len(raw.items)
    \/ raw.k # "bytes" /\ v = raw

\* v is what the dispatch table gives the cell of a column of type typ
Materialized(typ, cell, v) ==
    LET kind == TableKind(typ)
    IN  CASE kind = "passthrough" -> IsPassthroughOf(v, cell)
          [] kind = "timestamp" -> v.k = "string" /\ IsRFC3339Of(v.s, cell.t)
          [] OTHER -> v.k = kind /\ v.n = cell.n /\ v.s = cell.s

\* the column i of cols is the last one of its name
LastOfName(cols, i) == \A j \in (i + 1)..Len(cols) : cols[j].name # cols[i].name

\* QueryData returned rows
RowsReturned == Submitted /\ ret.out.err = "nil" /\ Len(ret.out.Rows) > 0

\* C10: what a row holds for a column is decided by the exact declared type
\* string: String a string, UInt8..UInt64 an unsigned integer, Int8..Int64 a
\* signed integer, Float32 and Float64 a float, Bool a bool, Date and DateTime
\* an RFC3339 text, and every other type the passthrough of the cell.
C10_DispatchByType ==
    RowsReturned =>
        \A r \in 1..Len(ret.out.Rows) : \A i \in 1..Len(env.cursor.cols) :
            LastOfName(env.cursor.cols, i) =>
                Materialized(env.cursor.cols[i].type, env.cursor.rows[r].cells[i],
                             ret.out.Rows[r][env.cursor.cols[i].name])

\* a column whose type only starts like DateTime keeps the driver's time
\* value, beside a UInt8 column
C10_Witness ==
    /\ RowsReturned
    /\ Len(env.cursor.cols) = 2
    /\ env.cursor.cols[1].type = <<"D","a","t","e","T","i","m","e","6","4","(","3",")">>
    /\ env.cursor.cols[2].name = <<"b">>
    /\ \E r \in 1..Len(ret.out.Rows) :
          /\ ret.out.Rows[r][<<"a">>].k = "time"
          /\ ret.out.Rows[r][<<"b">>].k = "uint64"

\* the places <<row, column>> of the returned rows a value is stored for
Stored ==
    {p \in (1..Len(ret.out.Rows)) \X (1..Len(env.cursor.cols)) :
        LastOfName(env.cursor.cols, p[2])}

StoredType(p) == env.cursor.cols[p[2]].type
StoredCell(p) == env.cursor.rows[p[1]].cells[p[2]]
StoredValue(p) == ret.out.Rows[p[1]][env.cursor.cols[p[2]].name]

\* the runtime shape of a cell: its dynamic type and those of its elements
RawShape(cell) == <<cell.k, [j \in 1..Len(cell.items) |-> cell.items[j].k]>>

\* C11 as stated: two values stored for columns of the same declared type
\* string have the same kind, whatever the cursor delivered.
C11_KindByTypeOnly ==
    RowsReturned =>
        \A p \in Stored : \A q \in Stored :
            StoredType(p) = StoredType(q) => StoredValue(p).k = StoredValue(q).k

\* C11, amended: two values stored for columns of the same declared type
\* string have the same kind when the type is one the dispatch table names;
\* for any other type they have the same kind when the raw values have the
\* same runtime shape.
C11_KindByTypeAndShape ==
    RowsReturned =>
        \A p \in Stored : \A q \in Stored :
            (/\ StoredType(p) = StoredType(q)
             /\ \/ TableKind(StoredType(p)) # "passthrough"
                \/ RawShape(StoredCell(p)) = RawShape(StoredCell(q)))
            => StoredValue(p).k = StoredValue(q).k

\* a Float64 column delivered a NaN and a number, and both are stored as
\* floats
C11_Witness ==
    /\ RowsReturned
    /\ Len(env.cursor.cols) = 1
    /\ env.cursor.cols[1].type = <<"F","l","o","a","t","6","4">>
    /\ Len(ret.out.Rows) = 2
    /\ env.cursor.rows[1].cells[1].s = <<"N","a","N">>
    /\ env.cursor.rows[2].cells[1].s = <<>>
    /\ ret.out.Rows[1][<<"a">>].k = "float64"
    /\ ret.out.Rows[2][<<"a">>].k = "float64"

\* the text of an element of a converted sequence
ElementText(item) == IF item.k = "bytes" THEN item.s ELSE Sprint(item)

\* the sequence raw is converted: the column is array-typed, raw is not empty
\* and its first element is a byte buffer
Converted(arrayTyped, raw) ==
    /\ raw.k = "anyseq"
    /\ arrayTyped
    /\ Len(raw.items) > 0
    /\ raw.items[1].k = "bytes"

\* C12: for a column the dispatch table does not name, a byte buffer is
\* stored as a string; a sequence of an array-typed column that is not empty
\* and starts with a byte buffer is stored as a sequence of strings of the
\* same length and order, byte buffers decoded and other elements
\* stringified; every other sequence is stored unchanged.
C12_PassthroughPostProcessing ==
    RowsReturned =>
        \A p \in Stored :
            TableKind(StoredType(p)) = "passthrough" =>
                LET raw == StoredCell(p)
                    v == StoredValue(p)
                    arrayTyped == ret.out.Columns[p[2]].IsArray
                IN  /\ raw.k = "bytes" => v.k = "string" /\ v.s = raw.s
                    /\ Converted(arrayTyped, raw) =>
                          /\ v.k = "strseq"
                          /\ Len(v.items) = Len(raw.items)
                          /\ \A j \in 1..Len(raw.items) :
                                /\ v.items[j].k = "string"
                                /\ v.items[j].s = ElementText(raw.items[j])
                    /\ (raw.k = "anyseq" /\ ~Converted(arrayTyped, raw)) => v = raw

\* an Array(String) column delivered a byte buffer, an integer and a float,
\* stored as three strings
C12_Witness ==
    /\ RowsReturned
    /\ Len(env.cursor.cols) = 1
    /\ env.cursor.cols[1].type = <<"A","r","r","a","y","(","S","t","r","i","n","g",")">>
    /\ \E r \in 1..Len(ret.out.Rows) :
          /\ env.cursor.rows[r].cells[1].k = "anyseq"
          /\ Len(env.cursor.rows[r].cells[1].items) = 3
          /\ env.cursor.rows[r].cells[1].items[2].k = "int64"
          /\ env.cursor.rows[r].cells[1].items[3].k = "float64"
          /\ ret.out.Rows[r][<<"a">>].k = "strseq"
          /\ ret.out.Rows[r][<<"a">>].items
                 = <<[k |-> "string", n |-> 0, s |-> <<"a">>],
                     [k |-> "string", n |-> 0, s |-> <<"7">>],
                     [k |-> "string", n |-> 0, s |-> <<"2",".","1","e","+","0","6">>]>>

(***************************************************************************)
(* Properties of the functions on their own (SpecFunctions).               *)
(***************************************************************************)
Called(name) == fn = name

sArrayOpen == <<"A","r","r","a","y","(">>

StartsWithArrayOpen(t) == Len(t) >= 6 /\ SubSeq(t, 1, 6) = sArrayOpen

\* C13: IsArrayType(t) is true if and only if the first 6 characters of t
\* are "Array("; a string shorter than 6 characters gives false.
C13_ArrayPrefixSixChars ==
    Called("IsArrayType") =>
        /\ ~output.panicked
        /\ output.truth <=> StartsWithArrayOpen(input)

\* C14: GetBaseType returns X for "Array(" X ")", one layer only, and returns
\* t unchanged for every t that does not start with "Array(".
C14_SingleLayerUnwrap ==
    Called("GetBaseType") =>
        /\ (StartsWithArrayOpen(input) /\ Len(input) >= 7
                /\ input[Len(input)] = ")") =>
              /\ ~output.panicked
              /\ output.text = SubSeq(input, 7, Len(input) - 1)
        /\ ~StartsWithArrayOpen(input) =>
              /\ ~output.panicked
              /\ output.text = input

\* C15: IsArrayType, GetBaseType and the nested-type test return a value for
\* every string and never panic.
C15_ClassifierTotal ==
    (Called("IsArrayType") \/ Called("GetBaseType") \/ Called("IsNestedType")) =>
        ~output.panicked

Least(S) == CHOOSE i \in S : \A j \in S : i <= j
Greatest(S) == CHOOSE i \in S : \A j \in S : i >= j

\* the texts of one white space character
SpaceTexts == {<<c>> : c \in WhiteSpace} \cup {EncodeRune(r) : r \in SpaceRunes}

\* q is white space characters only
RECURSIVE AllSpaces(_)
AllSpaces(q) ==
    \/ q = <<>>
    \/ \E w \in 1..3 :
          /\ w <= Len(q)
          /\ SubSeq(q, 1, w) \in SpaceTexts
          /\ AllSpaces(SubSeq(q, w + 1, Len(q)))

\* q without the white space it starts with and the white space it ends with
Trimmed(q) ==
    LET a == Greatest({i \in 0..Len(q) : AllSpaces(SubSeq(q, 1, i))})
        rest == SubSeq(q, a + 1, Len(q))
        b == Least({j \in 0..Len(rest) : AllSpaces(SubSeq(rest, j + 1, Len(rest)))})
    IN  SubSeq(rest, 1, b)

\* q without one final ";"
WithoutTerminator(q) ==
    IF q # <<>> /\ q[Len(q)] = ";" THEN SubSeq(q, 1, Len(q) - 1) ELSE q

\* C16: normalizeQuery(q) is q trimmed, without one final ";" (never two),
\* trimmed again; the empty string and ";" give the empty string.
C16_NormalizeQuery ==
    Called("normalizeQuery") =>
        /\ output.text = Trimmed(WithoutTerminator(Trimmed(input)))
        /\ input \in {<<>>, <<";">>} => output.text = <<>>
        /\ input = <<"x", ";", ";">> => output.text = <<"x", ";">>

\* white space before the terminator, here a no-break space, is trimmed
\* after the terminator is dropped
C16_Witness ==
    /\ Called("normalizeQuery")
    /\ input = <<"x">> \o EncodeRune(160) \o <<";">>
    /\ output.text = <<"x">>

\* the offsets at which a block comment opens in q
BlockOpens(q) == {i \in 1..(Len(q) - 1) : q[i] = "/" /\ q[i + 1] = "*"}

\* the offsets at which the block comment opened at o can close
BlockCloses(q, o) == {j \in (o + 2)..(Len(q) - 1) : q[j] = "*" /\ q[j + 1] = "/"}

\* q with every terminated block comment replaced by one space and an
\* unterminated one removed with all that follows
RECURSIVE StripBlocks(_)
StripBlocks(q) ==
    IF BlockOpens(q) = {} THEN q
    ELSE LET o == Least(BlockOpens(q))
         IN  IF BlockCloses(q, o) = {} THEN SubSeq(q, 1, o - 1)
             ELSE SubSeq(q, 1, o - 1) \o <<" ">>
                      \o StripBlocks(SubSeq(q, Least(BlockCloses(q, o)) + 2, Len(q)))

\* the offset at which the line of q[i] starts
LineStart(q, i) ==
    LET breaks == {k \in 1..(i - 1) : q[k] = "\n"}
    IN  IF breaks = {} THEN 1 ELSE Greatest(breaks) + 1

\* q[i] is behind a "--" of its line, or is part of it
InLineComment(q, i) ==
    /\ q[i] # "\n"
    /\ \E j \in LineStart(q, i)..i :
          j + 1 <= Len(q) /\ q[j] = "-" /\ q[j + 1] = "-"

\* q with every line cut at its first "--", line breaks kept
RECURSIVE CutLinesFrom(_, _)
CutLinesFrom(q, i) ==
    IF i > Len(q) THEN <<>>
    ELSE (IF InLineComment(q, i) THEN <<>> ELSE <<q[i]>>) \o CutLinesFrom(q, i + 1)

\* C17: removeComments replaces every terminated block comment by one space,
\* removes an unterminated one with everything after it, then cuts every
\* line at its first "--", keeping the line breaks and the other text.
C17_RemoveComments ==
    Called("removeComments") =>
        output.text = CutLinesFrom(StripBlocks(input), 1)

LineBreaks(q) == Cardinality({i \in 1..Len(q) : q[i] = "\n"})

\* C18: removeComments returns a text with as many line breaks as its input.
C18_LineCountKept ==
    Called("removeComments") => LineBreaks(output.text) = LineBreaks(input)

\* the spellings of the word LIMIT: the texts that upper-casing turns into
\* "LIMIT"; besides the ASCII letters in both cases that is the dotless i
\* (U+0131), whose upper case is "I"
LimitSpellings ==
    LET L == {<<"L">>, <<"l">>}
        I == {<<"I">>, <<"i">>, EncodeRune(305)}
        M == {<<"M">>, <<"m">>}
        T == {<<"T">>, <<"t">>}
    IN  {l \o i1 \o m \o i2 \o t : l \in L, i1 \in I, m \in M, i2 \in I, t \in T}

\* the w bytes of q from q[i] on are the word LIMIT
LimitWordAt(q, i, w) ==
    /\ i >= 1
    /\ i + w - 1 <= Len(q)
    /\ SubSeq(q, i, i + w - 1) \in LimitSpellings

\* the places <<offset, width>> of the word LIMIT in q
LimitWords(q) == {p \in (1..Len(q)) \X (5..7) : LimitWordAt(q, p[1], p[2])}

\* the word at p has a space right before and right after it
SpacedLimitAt(q, p) ==
    /\ p[1] > 1
    /\ q[p[1] - 1] = " "
    /\ p[1] + p[2] <= Len(q)
    /\ q[p[1] + p[2]] = " "

HasSpacedLimit(q) == \E p \in LimitWords(q) : SpacedLimitAt(q, p)

\* C19: containsLimitClause(q) is true exactly when removeComments(q) holds
\* a spelling of the word LIMIT (upper or lower case, the dotless i
\* included) with a space on both sides; a LIMIT that is only inside a
\* comment is not detected.
C19_LimitDetection ==
    Called("containsLimitClause") =>
        LET stripped == removeComments(input)
        IN  output.truth <=> HasSpacedLimit(stripped)

\* a LIMIT that is only inside a block comment
C19_Witness ==
    /\ Called("containsLimitClause")
    /\ input = <<"/","*"," ","L","I","M","I","T"," ","1","*","/">>
    /\ ~output.truth

\* q[i] is inside a single-quoted literal: a quote opens before it and one
\* closes after it
Quoted(q, i) ==
    /\ Cardinality({j \in 1..(i - 1) : q[j] = "'"}) % 2 = 1
    /\ \E j \in (i + 1)..Len(q) : q[j] = "'"

\* the word LIMIT occurs in q, and only inside single-quoted literals
LimitOnlyInLiteral(q) ==
    /\ LimitWords(q) # {}
    /\ \A p \in LimitWords(q) : Quoted(q, p[1])

\* C20 as stated: containsLimitClause is false for every query in which the
\* word LIMIT occurs only inside a single-quoted string literal.
C20_NoLimitInLiteral ==
    (Called("containsLimitClause") /\ LimitOnlyInLiteral(input)) => ~output.truth

HasCommentMarker(q) == Contains(q, <<"/","*">>) \/ Contains(q, <<"-","-">>)

\* C20, amended: for a query without comments in which the word LIMIT occurs
\* only inside a single-quoted string literal, containsLimitClause is false
\* exactly when no occurrence has a space right before and right after it.
C20_LimitInLiteralBySpaces ==
    (/\ Called("containsLimitClause")
     /\ LimitOnlyInLiteral(input)
     /\ ~HasCommentMarker(input)) =>
        (output.truth <=> HasSpacedLimit(input))

\* the literal of the test: LIMIT right behind the quote
C20_Witness ==
    /\ Called("containsLimitClause")
    /\ input = <<"'","L","I","M","I","T"," ","1","'">>
    /\ ~output.truth

\* the offset of the first c in q, or 0
FirstAt(q, c) ==
    IF \E i \in 1..Len(q) : q[i] = c
    THEN Least({i \in 1..Len(q) : q[i] = c})
    ELSE 0

StartsWith(q, prefix) ==
    Len(q) >= Len(prefix) /\ SubSeq(q, 1, Len(prefix)) = prefix

\* C21: for the empty string and for every string that starts with
\* "localhost", whatever follows, ParseClickhouseURL returns "localhost",
\* 9000, "default" and no error.
C21_LocalhostDefaults ==
    (Called("ParseClickhouseURL")
        /\ (input = <<>> \/ StartsWith(input, <<"l","o","c","a","l","h","o","s","t">>)))
    => /\ output.err = "nil"
       /\ output.host = <<"l","o","c","a","l","h","o","s","t">>
       /\ output.port = 9000
       /\ output.database = <<"d","e","f","a","u","l","t">>

\* a port and a database behind "localhost" are not read
C21_Witness ==
    /\ Called("ParseClickhouseURL")
    /\ input = <<"l","o","c","a","l","h","o","s","t",":","8","/","x">>
    /\ output.port = 9000
    /\ output.database = <<"d","e","f","a","u","l","t">>

\* the URL without the scheme, and its parts as the claim names them
UrlRest(q) ==
    IF StartsWith(q, <<"c","l","i","c","k","h","o","u","s","e",":","/","/">>)
    THEN SubSeq(q, 14, Len(q))
    ELSE q

UrlHostPort(q) ==
    IF FirstAt(UrlRest(q), "/") = 0 THEN UrlRest(q)
    ELSE SubSeq(UrlRest(q), 1, FirstAt(UrlRest(q), "/") - 1)

UrlDatabase(q) ==
    IF FirstAt(UrlRest(q), "/") = 0 THEN <<"d","e","f","a","u","l","t">>
    ELSE SubSeq(UrlRest(q), FirstAt(UrlRest(q), "/") + 1, Len(UrlRest(q)))

UrlHost(q) ==
    IF FirstAt(UrlHostPort(q), ":") = 0 THEN UrlHostPort(q)
    ELSE SubSeq(UrlHostPort(q), 1, FirstAt(UrlHostPort(q), ":") - 1)

\* the text of the port: between the first ":" of hostPort and the next one
UrlPortText(q) ==
    LET behind == SubSeq(UrlHostPort(q), FirstAt(UrlHostPort(q), ":") + 1,
                         Len(UrlHostPort(q)))
    IN  IF FirstAt(behind, ":") = 0 THEN behind
        ELSE SubSeq(behind, 1, FirstAt(behind, ":") - 1)

\* t is the decimal text of an integer of the port's type
IsInteger(t) ==
    LET d == IF t # <<>> /\ t[1] \in {"+", "-"} THEN Tail(t) ELSE t
    IN  /\ d # <<>>
        /\ \A i \in 1..Len(d) : IsDigit(d[i])
        /\ FitsInt64(d, t[1] = "-")

RECURSIVE NatOf(_)
NatOf(d) ==
    IF d = <<>> THEN 0 ELSE NatOf(SubSeq(d, 1, Len(d) - 1)) * 10 + DigitValue(d[Len(d)])

IntegerOf(t) ==
    IF t[1] = "-" THEN 0 - NatOf(Tail(t))
    ELSE IF t[1] = "+" THEN NatOf(Tail(t))
    ELSE NatOf(t)

UrlPort(q) ==
    IF FirstAt(UrlHostPort(q), ":") = 0 \/ ~IsInteger(UrlPortText(q)) THEN 9000
    ELSE IntegerOf(UrlPortText(q))

\* C22: for a non-empty input that does not start with "localhost" the
\* scheme is stripped, the rest is split at its first "/" into hostPort and
\* database (all that follows, "default" when absent), hostPort at ":" into
\* host and port (9000 when absent or not an integer); the call fails, with
\* "", 0 and "", exactly when the host is empty, and on success host and
\* database are not empty.
C22_UrlParts ==
    (Called("ParseClickhouseURL") /\ input # <<>>
        /\ ~StartsWith(input, <<"l","o","c","a","l","h","o","s","t">>))
    => /\ output.err # "nil" <=> UrlHost(input) = <<>>
       /\ output.err # "nil" =>
             output.host = <<>> /\ output.port = 0 /\ output.database = <<>>
       /\ output.err = "nil" =>
             /\ output.host = UrlHost(input)
             /\ output.port = UrlPort(input)
             /\ output.database = UrlDatabase(input)
             /\ output.host # <<>>
             /\ output.database # <<>>

(***************************************************************************)
(* Properties of the process (SpecMain).                                   *)
(***************************************************************************)
\* C23: when main has ended after NewServer connected a client, the client
\* is closed, whether Start returned normally or with an error.
C23_ClientClosedAtExit ==
    (mainPc = "exited" /\ conn.state # "none") => conn.state = "closed"

(***************************************************************************)
(* Properties of the connection and of failed calls (Spec).                *)
(***************************************************************************)
\* C26: a client operation, failed or not, leaves the connection handle as it
\* was when it returns, so the next operation runs on the same connection;
\* the handle changes only in a step of Close, which closes it.
C26_ConnectionKept ==
    [][/\ (pc = "running" /\ pc' = "returned") => conn' = conn
       /\ conn' # conn =>
             (conn' = Close(conn) /\ conn'.state = "closed" /\ UNCHANGED toolVars)]_vars

\* a statement failed and the connection is still the open one
C26_Witness ==
    /\ pc = "returned"
    /\ ret.called
    /\ ret.out.err = "QueryFailed"
    /\ ret.out.log = <<"Ping", "Query">>
    /\ conn = Connection("open", sLocalhost, DefaultPort, sDefault)

\* the names of the columns of the returned result
ColumnNames == {ret.out.Columns[i].Name : i \in 1..Len(ret.out.Columns)}

\* C25: in a result returned without error the keys of every row are exactly
\* the names of the result's columns, and under a name that several columns
\* carry the row holds the value of the column of the highest position.
C25_RecordKeys ==
    (Submitted /\ ret.out.err = "nil") =>
        \A r \in 1..Len(ret.out.Rows) :
            /\ DOMAIN ret.out.Rows[r] = ColumnNames
            /\ \A i \in 1..Len(env.cursor.cols) :
                  LastOfName(env.cursor.cols, i) =>
                      Materialized(env.cursor.cols[i].type,
                                   env.cursor.rows[r].cells[i],
                                   ret.out.Rows[r][env.cursor.cols[i].name])

\* two columns of the name "a", an integer and then a string: the row has the
\* one key and holds the string
C25_Witness ==
    /\ Submitted
    /\ ret.out.err = "nil"
    /\ Len(ret.out.Rows) > 0
    /\ Len(env.cursor.cols) = 2
    /\ env.cursor.cols[1] = [name |-> <<"a">>, type |-> tUInt8]
    /\ env.cursor.cols[2] = [name |-> <<"a">>, type |-> tString]
    /\ DOMAIN ret.out.Rows[1] = {<<"a">>}
    /\ ret.out.Rows[1][<<"a">>].k = "string"

\* C27: with a positive cap the text QueryData submits has a row limit
\* outside comments: containsLimitClause of the submitted text is true.
C27_EffectiveLimit ==
    (Submitted /\ ret.limit > 0) => containsLimitClause(ret.out.sent[1])

\* a client operation was called and returned an error
CallFailed == pc = "returned" /\ ret.called /\ ret.out.err # "nil"

\* C28: a client operation that returns an error returns nothing with it:
\* QueryData no columns and no rows, also when rows were read before the
\* failure, and the listing operations an empty list.
C28_NoPartialResults ==
    CallFailed =>
        /\ ret.out.names = <<>>
        /\ ret.out.Columns = <<>>
        /\ ret.out.Rows = <<>>

\* the second row of a query fails to scan after the first was read
C28_Witness ==
    /\ CallFailed
    /\ tool = "query"
    /\ ret.out.err = "RowScanFailed"
    /\ Len(env.cursor.cols) > 0
    /\ Len(env.cursor.rows) = 2
    /\ env.cursor.rows[1].scanOk
    /\ ~env.cursor.rows[2].scanOk
    /\ ret.out.Rows = <<>>
    /\ ret.out.Columns = <<>>

\* the statement of a client operation was submitted and gave a cursor
CursorObtained ==
    /\ pc = "returned"
    /\ ret.called
    /\ Count(ret.out.log, "Query") = 1
    /\ env.queryOk

\* C29: an operation that obtained a cursor closes it once, as the last thing
\* it does with it, whether it succeeds, a row fails to scan or the iteration
\* fails; an operation that obtained none closes none.
C29_CursorClosed ==
    pc = "returned" =>
        IF CursorObtained
        THEN /\ Count(ret.out.log, "Close") = 1
             /\ ret.out.log[Len(ret.out.log)] = "Close"
        ELSE Count(ret.out.log, "Close") = 0

\* the iteration of a query failed after a row was read: the cursor is closed
C29_Witness ==
    /\ CursorObtained
    /\ tool = "query"
    /\ ret.out.err = "ResultError"
    /\ Len(env.cursor.rows) > 0
    /\ Count(ret.out.log, "Scan") = Len(env.cursor.rows)
    /\ ret.out.log[Len(ret.out.log)] = "Close"
    /\ ret.out.log[Len(ret.out.log) - 1] = "Err"

(***************************************************************************)
(* Termination of removeComments (SpecFunctions).                          *)
(***************************************************************************)
\* every "/*" of next is a "/*" of cur at the same distance from the end
NoNewOpen(cur, next) ==
    \A p \in BlockOpens(next) : (p + Len(cur) - Len(next)) \in BlockOpens(cur)

\* every pass of the block-comment loop started on result stops, or gives a
\* strictly shorter text without a new "/*"
RECURSIVE PassesShorten(_)
PassesShorten(result) ==
    LET pass == blockCommentPass(result)
    IN  \/ pass.stop
        \/ /\ Len(pass.result) < Len(result)
           /\ NoNewOpen(result, pass.result)
           /\ PassesShorten(pass.result)

LineOpens(q) == {i \in 1..(Len(q) - 1) : q[i] = "-" /\ q[i + 1] = "-"}

\* C30: removeComments terminates: each pass of its block-comment loop stops
\* or strictly shortens the text without creating a new "/*"; and its output
\* contains neither "/*" nor "--".
C30_RemoveCommentsTerminates ==
    Called("removeComments") =>
        /\ PassesShorten(input)
        /\ BlockOpens(output.text) = {}
        /\ LineOpens(output.text) = {}

\* a block comment is replaced in one pass and a line comment is cut
C30_Witness ==
    /\ Called("removeComments")
    /\ input = <<"/","*","*","/","-","-">>
    /\ ~blockCommentPass(input).stop
    /\ output.text = <<" ">>

(***************************************************************************)
(* Properties of concurrent calls (SpecConcurrent).                        *)
(***************************************************************************)
\* C24: calls of QueryData that run at the same time on one client do not
\* interfere: under every interleaving a call returns what it returns when it
\* runs alone on the same cursor, and the connection handle stays as it was.
C24_NoInterference ==
    /\ conn = Connection("open", sLocalhost, DefaultPort, sDefault)
    /\ \A c \in DOMAIN calls :
          calls[c].at = "done" =>
              calls[c].ret = QueryData(calls[c].query, calls[c].limit, calls[c].env)

\* the second call has returned its two rows while the first call is between
\* scanning a row and copying it
C24_Witness ==
    /\ Len(calls) = 2
    /\ calls[1].at = "fill"
    /\ calls[2].at = "done"
    /\ calls[2].ret.err = "nil"
    /\ Len(calls[2].ret.Rows) = 2
    /\ calls[1].buf # calls[2].buf
    /\ calls[2].ret.log[Len(calls[2].ret.log)] = "Close"

====
